---- MODULE Spec2Model ----
(***************************************************************************)
(* Model of the numerical-analysis core of the lyapunov_lab frontend:      *)
(* trajectory interpolation, Poincare section extraction, bifurcation       *)
(* binning, the windowed Lyapunov estimate, the regime classifier, the      *)
(* regime-change detector and the playground store's live buffer.           *)
(*                                                                          *)
(* Numbers: the code works on IEEE doubles.  The model draws its inputs     *)
(* from small sets of integers (doubles with integer values) and keeps      *)
(* every quotient exact by carrying it as a scaled integer; each section    *)
(* states its unit.                                                         *)
(***************************************************************************)
EXTENDS Integers, Sequences, FiniteSets, TLC

VARIABLES
    \* interpolateTrajectory (components/visualization/page.tsx)
    pts, method, segmentsPerEdge, interpPc, interpOut,
    \* computePoincareFromData (components/export-view.tsx)
    pData, pOpts, pPc, pI, lastValue, pPoints,
    \* computeBifurcationData (components/playground-view.tsx) and
    \* computeBifurcationFromData (components/export-view.tsx)
    bData, bOpts, bPc, bifurcationPoints, bFromData,
    \* calculateLyapunovExponent, classifyDynamicalState, detectRegimeChange
    \* (components/playground-view.tsx)
    lData, lChannel, lPc, lyapunov, lReads,
    cInput, cPc, classification,
    history, rPc, regimeChange,
    \* dashboardStore and its handlers (components/playground-view.tsx)
    data, isRecording, recordedData, selectedRecording, recordings,
    playbackPosition, isPlaying, showSaveDialog, nld_recordings,
    \* history of the run: the number of live samples delivered so far (live
    \* sample k is the integer k), the handler that ran last, and what the
    \* last successful save started from (the list it loaded, recordedData);
    \* the capture: the number of samples received when it was started and
    \* when it was stopped
    received, lastOp, savedFrom, capture,
    \* SensorDashboard (components/visualization/page.tsx): refs and state
    storeRef, extremaRef, visibleData, currentIndex, totalCount, normalize,
    dashIsPlaying, playHeadRef,
    \* history of the run: the samples received since mount or the last reset,
    \* the store and extrema before a message that carried no sample, the
    \* exception that escaped the last handler, the handler that ran last, and
    \* whether handleReset has run
    dashReceived, dashBefore, dashThrown, dashOp, dashWasReset,
    \* SensorDashboard (app/visualization/page.tsx)
    allData, appCurrentIndex, appIsPlaying, histOp,
    \* the recordings loaders (playground-view.tsx, export-view.tsx and the
    \* delete view): the nld_recordings entry they read, and what each got
    entry, loads,
    \* calculateAnomalyScore (components/playground-view.tsx)
    aCurrent, aBaseline, aPc, anomalyScore,
    \* calculateLyapunovExponent on a doubling sequence
    gStart, gLen, gPc, gEstimate,
    \* useWebSocketData (components/playground/phase-space-view.tsx and
    \* time-series-chart.tsx): the hook that is mounted, its data state, and
    \* of the last message the handler ran on: what it did, the number of
    \* words it carried and the number of samples it appended
    binHook, binData, binOp, binWords, binAppended,
    \* one instance of the effect that owns a stream connection (ControlPanel,
    \* useSharedXYZData, useWebSocketData): the hook, the sockets it created,
    \* the socket its variable or ref points at, the timers it set, the timer
    \* its variable or ref holds, its active flag; whether it has been torn
    \* down, and whether it created a socket after that
    sHook, sockets, wsRef, timers, timerRef, active, tornDown, createdAfter,
    \* the experiment store (lib/store.ts) fed by ControlPanel
    \* (components/playground/metrics-panel.tsx), and the action that ran last
    expData, expCurrentIndex, lyapunovExponent, behaviorState, expOp,
    \* MetricsCards (components/playground-view.tsx): the store's data, the
    \* Lyapunov history and the regime-change flag computed from it
    mData, mPc, lyapunovHistory, mRegimeChange

interpVars == <<pts, method, segmentsPerEdge, interpPc, interpOut>>
poincareVars == <<pData, pOpts, pPc, pI, lastValue, pPoints>>
bifVars == <<bData, bOpts, bPc, bifurcationPoints, bFromData>>
lyapVars == <<lData, lChannel, lPc, lyapunov, lReads>>
classVars == <<cInput, cPc, classification>>
regimeVars == <<history, rPc, regimeChange>>
storeVars == <<data, isRecording, recordedData, selectedRecording, recordings,
               playbackPosition, isPlaying, showSaveDialog, nld_recordings,
               received, lastOp, savedFrom, capture>>
dashVars == <<storeRef, extremaRef, visibleData, currentIndex, totalCount, normalize,
              dashIsPlaying, playHeadRef, dashReceived, dashBefore, dashThrown, dashOp,
              dashWasReset>>
histVars == <<allData, appCurrentIndex, appIsPlaying, histOp>>
loaderVars == <<entry, loads>>
anomalyVars == <<aCurrent, aBaseline, aPc, anomalyScore>>
earlyVars == <<interpVars, poincareVars, bifVars, lyapVars, classVars, regimeVars, storeVars,
               dashVars, histVars, loaderVars>>
growthVars == <<gStart, gLen, gPc, gEstimate>>
binaryVars == <<binHook, binData, binOp, binWords, binAppended>>
streamVars == <<sHook, sockets, wsRef, timers, timerRef, active, tornDown, createdAfter>>
expVars == <<expData, expCurrentIndex, lyapunovExponent, behaviorState, expOp>>
metricsVars == <<mData, mPc, lyapunovHistory, mRegimeChange>>
lateVars == <<anomalyVars, growthVars, binaryVars, streamVars, expVars, metricsVars>>
vars == <<earlyVars, lateVars>>

\* A sample (ChannelMap) is a function from the channel names it carries to
\* numbers; a channel the sample lacks is outside its DOMAIN.
\* d[key] ?? 0
GetOr0(d, key) == IF key \in DOMAIN d THEN d[key] ELSE 0

Max2(a, b) == IF a >= b THEN a ELSE b
Min2(a, b) == IF a <= b THEN a ELSE b
Abs(a) == IF a < 0 THEN -a ELSE a

\* all sequences over S of length lo..hi
SeqsOf(S, lo, hi) == UNION {[1..n -> S] : n \in lo..hi}

(***************************************************************************)
(* Trajectory resampler.  Sequences are 1-based in the model and 0-based    *)
(* in the code: model position p is code index p - 1; indexMap holds code   *)
(* indices.                                                                 *)
(***************************************************************************)
MaxPts == 3
MaxSegments == 3

\* coordinates are multiples of 12, so that every lerp at t = s/k, k <= 4,
\* is an integer
Vec3(x, y, z) == [x |-> x, y |-> y, z |-> z]
InputPoints == {Vec3(0, 0, 0), Vec3(12, 24, 0), Vec3(24, 12, 12)}
Methods == {"none", "linear", "catmullRom"}

\* THREE.MathUtils.lerp(x, y, t) at t = s/k
lerp(x, y, s, k) == x + ((y - x) * s) \div k

lerpVec(a, b, s, k) ==
    Vec3(lerp(a.x, b.x, s, k), lerp(a.y, b.y, s, k), lerp(a.z, b.z, s, k))

\* Math.round(num/den) for num >= 0, den > 0: halves round up
RoundDiv(num, den) == (2 * num + den) \div (2 * den)

\* a variant that numbers the points from 1
IdentityMapFromOne(n) == [q \in 1..n |-> q]
\* pts.map((_, i) => i)
IdentityMap(n) == [p \in 1..n |-> p - 1]

\* the index pushed with the final point of the linear branch
LinearLastIndexOffByOne(n) == n
LinearLastIndex(n) == n - 1

\* the number of samples the inner loop emits per edge (s = 0 .. k-1)
EdgeSamplesInclusive(k) == k + 1
EdgeSamples(k) == k

\* the linear branch: the samples of every edge at t = s/k, then the last
\* original point
InterpLinear(ps, k) ==
    LET n == Len(ps)
        per == EdgeSamples(k)
        total == (n - 1) * per + 1
    IN  [points |-> [q \in 1..total |->
                        IF q = total THEN ps[n]
                        ELSE lerpVec(ps[((q - 1) \div per) + 1],
                                     ps[((q - 1) \div per) + 2],
                                     (q - 1) % per, k)],
         indexMap |-> [q \in 1..total |->
                        IF q = total THEN LinearLastIndex(n)
                        ELSE (q - 1) \div per]]

\* Math.max(1, (pts.length - 1) * segmentsPerEdge)
TotalSegments(n, k) == Max2(1, (n - 1) * k)

\* curve.getPoints(totalSegments)[i]: the non-closed curve passes through
\* control point j at parameter j/(n-1); elsewhere the point is an interior
\* point of the spline, kept symbolic
CurvePoint(ps, i, k) ==
    IF i % k = 0 THEN ps[(i \div k) + 1]
    ELSE [spline |-> <<i \div k, (i \div k) + 1>>, weight |-> <<i % k, k>>]

\* Math.min(n - 1, Math.max(0, Math.round(t * (n - 1)))), t = i/totalSegments
ApproxIdx(i, total, n) == Min2(n - 1, Max2(0, RoundDiv(i * (n - 1), total)))

InterpCatmullRom(ps, k) ==
    LET n == Len(ps)
        total == TotalSegments(n, k)
    IN  [points |-> [q \in 1..(total + 1) |-> CurvePoint(ps, q - 1, k)],
         indexMap |-> [q \in 1..(total + 1) |-> ApproxIdx(q - 1, total, n)]]

interpolateTrajectory(ps, m, k) ==
    IF Len(ps) <= 1 \/ m = "none"
    THEN [points |-> ps, indexMap |-> IdentityMap(Len(ps))]
    ELSE IF m = "linear" THEN InterpLinear(ps, k)
    ELSE InterpCatmullRom(ps, k)

NoInterp == [points |-> <<>>, indexMap |-> <<>>]

InterpInit ==
    /\ pts \in SeqsOf(InputPoints, 0, MaxPts)
    /\ method \in Methods
    /\ segmentsPerEdge \in 1..MaxSegments
    /\ interpPc = "input"
    /\ interpOut = NoInterp

InterpIdle ==
    /\ pts = <<>>
    /\ method = "none"
    /\ segmentsPerEdge = 1
    /\ interpPc = "idle"
    /\ interpOut = NoInterp

Interpolate ==
    /\ interpPc = "input"
    /\ interpOut' = interpolateTrajectory(pts, method, segmentsPerEdge)
    /\ interpPc' = "done"
    /\ UNCHANGED <<pts, method, segmentsPerEdge>>

(***************************************************************************)
(* Poincare section extractor.  The loop of computePoincareFromData is      *)
(* modelled iteration by iteration: pI is the loop variable i (a code       *)
(* index), lastValue and pPoints are the function's locals.  Nothing        *)
(* interleaves with the loop; the steps only expose its intermediate        *)
(* states.                                                                  *)
(***************************************************************************)
MaxTraj == 4
MaxTransient == 3

PoincareSamples ==
    { [x |-> -1, y |-> 1, t |-> 5],
      [x |-> 1, z |-> -1],
      [x |-> 0, y |-> -1, z |-> 1] }
Sections == {"x", "y", "z"}
SectionValues == {0, 1}
Directions == {"positive", "negative", "both"}

\* data[i][section] ?? 0, i a code index
SectionAt(samples, section, i) == GetOr0(samples[i + 1], section)

CrossedStrict(last, cur, sv) ==
    (last < sv /\ cur > sv) \/ (last > sv /\ cur <= sv)
\* the crossing test
Crossed(last, cur, sv) ==
    (last < sv /\ cur >= sv) \/ (last > sv /\ cur <= sv)

ShouldRecord(dir, cur, sv) ==
    LET crossingPositive == cur >= sv
    IN  \/ dir = "both"
        \/ (dir = "positive" /\ crossingPositive)
        \/ (dir = "negative" /\ ~crossingPositive)

\* the record pushed for code index i
PoincarePoint(samples, i) ==
    [x |-> GetOr0(samples[i + 1], "x"),
     y |-> GetOr0(samples[i + 1], "y"),
     z |-> GetOr0(samples[i + 1], "z"),
     t |-> IF "t" \in DOMAIN samples[i + 1] THEN samples[i + 1]["t"] ELSE i,
     index |-> i]

PoincareInit ==
    /\ pData \in SeqsOf(PoincareSamples, 0, MaxTraj)
    /\ pOpts \in [section : Sections, sectionValue : SectionValues,
                  crossingDirection : Directions, transient : 0..MaxTransient]
    /\ pPc = "call"
    /\ pI = 0
    /\ lastValue = 0
    /\ pPoints = <<>>

PoincareIdle ==
    /\ pData = <<>>
    /\ pOpts = [section |-> "x", sectionValue |-> 0,
                crossingDirection |-> "both", transient |-> 0]
    /\ pPc = "idle"
    /\ pI = 0
    /\ lastValue = 0
    /\ pPoints = <<>>

\* entry: the early return, or the initialisation of lastValue and i
PoincareEnter ==
    /\ pPc = "call"
    /\ IF Len(pData) < 2
       THEN pPc' = "done" /\ UNCHANGED <<pI, lastValue>>
       ELSE /\ pPc' = "loop"
            /\ lastValue' = SectionAt(pData, pOpts.section, 0)
            /\ pI' = 1
    /\ UNCHANGED <<pData, pOpts, pPoints>>

\* one iteration of the for loop
PoincareIterate ==
    /\ pPc = "loop"
    /\ pI < Len(pData)
    /\ pI' = pI + 1
    /\ IF pI < pOpts.transient
       THEN UNCHANGED <<lastValue, pPoints>>
       ELSE LET currentValue == SectionAt(pData, pOpts.section, pI)
            IN  /\ pPoints' =
                      IF /\ Crossed(lastValue, currentValue, pOpts.sectionValue)
                         /\ ShouldRecord(pOpts.crossingDirection, currentValue,
                                         pOpts.sectionValue)
                      THEN Append(pPoints, PoincarePoint(pData, pI))
                      ELSE pPoints
                /\ lastValue' = currentValue
    /\ UNCHANGED <<pData, pOpts, pPc>>

\* the loop condition fails: return points
PoincareReturn ==
    /\ pPc = "loop"
    /\ pI >= Len(pData)
    /\ pPc' = "done"
    /\ UNCHANGED <<pData, pOpts, pI, lastValue, pPoints>>

(***************************************************************************)
(* Bifurcation binners.  Parameters are integers that are multiples of 60,  *)
(* so that the bin width range/numBins is an integer for every numBins the  *)
(* model uses and the code's double arithmetic is exact.  A bin center is   *)
(* the rational num/den.  Observables are in units of 0.001.                *)
(***************************************************************************)
MaxPattern == 2
MaxExtra == 2
MaxBins == 3
MaxBifTransient == 2

\* data.length < 50
MinBifSamples == 50
\* const bins = 30
bins == 30

BifSamples ==
    { [x |-> 0, y |-> 120],
      [x |-> 60, y |-> 124],
      [x |-> 120, y |-> -300],
      [y |-> 1000] }

\* d[key] || 0
GetOrFalsy0(d, key) == IF key \in DOMAIN d THEN d[key] ELSE 0

\* the input: pattern pat repeated up to length n
Repeat(pat, n) == [i \in 1..n |-> pat[((i - 1) % Len(pat)) + 1]]

\* Math.round(v * 10) / 10 and Math.round(v * 100) / 100, v in units of 0.001
RoundTo(v, unit) == unit * ((2 * v + unit) \div (2 * unit))
Round1(v) == RoundTo(v, 100)
Round2(v) == RoundTo(v, 10)

SeqMin(s) == CHOOSE m \in {s[i] : i \in 1..Len(s)} : \A i \in 1..Len(s) : m <= s[i]
SeqMax(s) == CHOOSE m \in {s[i] : i \in 1..Len(s)} : \A i \in 1..Len(s) : m >= s[i]

\* the elements of s in order of first occurrence ([...new Set(s)])
Dedupe(s) ==
    LET F[n \in 0..Len(s)] ==
            IF n = 0 THEN <<>>
            ELSE IF \E j \in 1..(n - 1) : s[j] = s[n] THEN F[n - 1]
            ELSE Append(F[n - 1], s[n])
    IN  F[Len(s)]

\* the concatenation of the sequences of ss
Flatten(ss) ==
    LET F[n \in 0..Len(ss)] == IF n = 0 THEN <<>> ELSE F[n - 1] \o ss[n]
    IN  F[Len(ss)]

\* minParam + (idx + 0.5) * binWidth, binWidth = range / n
BinCenter(minParam, range, n, idx) ==
    [num |-> 2 * n * minParam + (2 * idx + 1) * range, den |-> 2 * n]

\* p >= binMin && p < binMax for bin i of n
InBin(p, minParam, range, n, i) ==
    /\ n * p >= n * minParam + i * range
    /\ n * p < n * minParam + (i + 1) * range

computeBifurcationData(samples) ==
    IF Len(samples) < MinBifSamples THEN <<>>
    ELSE
    LET params == [i \in 1..Len(samples) |-> GetOrFalsy0(samples[i], "x")]
        observables == [i \in 1..Len(samples) |-> GetOrFalsy0(samples[i], "y")]
        minParam == SeqMin(params)
        maxParam == SeqMax(params)
        range == maxParam - minParam
        idxIn(i) == SelectSeq([q \in 1..Len(samples) |-> q],
                              LAMBDA q : InBin(params[q], minParam, range, bins, i))
        binOut(i) ==
            LET sel == idxIn(i)
                uniqueVals == Dedupe([q \in 1..Len(sel) |-> Round1(observables[sel[q]])])
            IN  [q \in 1..Len(uniqueVals) |->
                    [x |-> BinCenter(minParam, range, bins, i), y |-> uniqueVals[q]]]
    IN  Flatten([b \in 1..bins |-> binOut(b - 1)])

\* Math.floor((param - minParam) / binWidth)
BinIndex(param, minParam, range, n) == ((param - minParam) * n) \div range

computeBifurcationFromData(samples, options) ==
    LET kept == Max2(0, Len(samples) - options.transient)
        values == [i \in 1..kept |->
                     [param |-> GetOr0(samples[i + options.transient], options.parameterKey),
                      observable |-> GetOr0(samples[i + options.transient], options.observableKey)]]
        params == [i \in 1..kept |-> values[i].param]
        minParam == SeqMin(params)
        maxParam == SeqMax(params)
        paramRange == maxParam - minParam
        n == options.numBins
        idxOf(i) == BinIndex(params[i], minParam, paramRange, n)
        binOrder == Dedupe([i \in 1..kept |-> idxOf(i)])
        binOut(b) ==
            LET sel == SelectSeq([q \in 1..kept |-> q], LAMBDA q : idxOf(q) = b)
                obs == Dedupe([q \in 1..Len(sel) |-> Round2(values[sel[q]].observable)])
            IN  [q \in 1..Len(obs) |->
                    [param |-> BinCenter(minParam, paramRange, n, b), value |-> obs[q]]]
    IN  IF kept = 0 THEN <<>>
        ELSE IF paramRange = 0 THEN values
        ELSE Flatten([q \in 1..Len(binOrder) |-> binOut(binOrder[q])])

BifInit ==
    /\ \E pat \in SeqsOf(BifSamples, 1, MaxPattern) :
       \E n \in {MinBifSamples - 1, MinBifSamples, MinBifSamples + MaxExtra} :
          bData = Repeat(pat, n)
    /\ bOpts \in [parameterKey : {"x"}, observableKey : {"y"},
                  numBins : 1..MaxBins, transient : 0..MaxBifTransient]
    /\ bPc = [playground |-> "input", export |-> "input"]
    /\ bifurcationPoints = <<>>
    /\ bFromData = <<>>

BifIdle ==
    /\ bData = <<>>
    /\ bOpts = [parameterKey |-> "x", observableKey |-> "y", numBins |-> 1, transient |-> 0]
    /\ bPc = [playground |-> "idle", export |-> "idle"]
    /\ bifurcationPoints = <<>>
    /\ bFromData = <<>>

\* BifurcationDiagram's use of computeBifurcationData on the buffer
BifurcationData ==
    /\ bPc.playground = "input"
    /\ bifurcationPoints' = computeBifurcationData(bData)
    /\ bPc' = [bPc EXCEPT !.playground = "done"]
    /\ UNCHANGED <<bData, bOpts, bFromData>>

\* the export view's use of computeBifurcationFromData on a recording
BifurcationFromData ==
    /\ bPc.export = "input"
    /\ bFromData' = computeBifurcationFromData(bData, bOpts)
    /\ bPc' = [bPc EXCEPT !.export = "done"]
    /\ UNCHANGED <<bData, bOpts, bifurcationPoints>>

(***************************************************************************)
(* Windowed Lyapunov estimator.  Channel values are in units of 1e-10, so   *)
(* that the test delta > 1e-10 is delta > 1 in the model.  The estimate is  *)
(* the mean of Math.log over the counted deltas; the model keeps the        *)
(* arguments of Math.log (logArgs) and their number (count) instead of the  *)
(* quotient.  A number-or-null value is a record with a null flag.          *)
(***************************************************************************)
\* data.length < 100
MinLyapSamples == 100

LyapSamples == { [x |-> 0], [x |-> 1], [x |-> 3], [y |-> 5] }
LyapSpike == [x |-> 7, y |-> 2]

NullNumber == [null |-> TRUE, logArgs |-> <<>>, count |-> 0]

\* the loop bounds: for (let i = 10; i < values.length - 10; i++)
LoopStart(len) == 10
LoopEndWhole(len) == len
LoopEnd(len) == len - 10

\* the code indices i the loop visits
LoopIndices(len) == { i \in LoopStart(len)..(LoopEnd(len) - 1) : TRUE }

\* values[i]: undefined outside the array
HasIndex(values, i) == i >= 0 /\ i < Len(values)

\* delta > 1e-10 at code index i; a delta involving undefined is NaN and
\* compares false
DeltaCounted(values, i) ==
    /\ HasIndex(values, i)
    /\ HasIndex(values, i + 1)
    /\ Abs(values[i + 2] - values[i + 1]) > 1

calculateLyapunovExponent(samples, channel) ==
    IF Len(samples) < MinLyapSamples THEN NullNumber
    ELSE
    LET values == [q \in 1..Len(samples) |-> GetOrFalsy0(samples[q], channel)]
        counted == SelectSeq([q \in 1..Cardinality(LoopIndices(Len(values))) |->
                                 LoopStart(Len(values)) + q - 1],
                             LAMBDA i : DeltaCounted(values, i))
    IN  IF Len(counted) > 0
        THEN [null |-> FALSE,
              logArgs |-> [q \in 1..Len(counted) |->
                             Abs(values[counted[q] + 2] - values[counted[q] + 1])],
              count |-> Len(counted)]
        ELSE NullNumber

\* the array indices the call reads: values[i] and values[i + 1] for every
\* visited i
LyapunovReads(samples) ==
    IF Len(samples) < MinLyapSamples THEN {}
    ELSE LoopIndices(Len(samples)) \cup {i + 1 : i \in LoopIndices(Len(samples))}

\* samples with the sample at code index at replaced by spike
WithSpike(samples, at, spike) == [q \in 1..Len(samples) |-> IF q = at + 1 THEN spike ELSE samples[q]]

LyapInit ==
    /\ \E pat \in SeqsOf(LyapSamples, 1, MaxPattern) :
       \E n \in {MinLyapSamples - 1, MinLyapSamples, MinLyapSamples + MaxExtra} :
       \E at \in {-1, 0, 9, 10, 11, n - 11, n - 10, n - 9, n - 1} :
          lData = WithSpike(Repeat(pat, n), at, LyapSpike)
    /\ lChannel \in {"x", "z"}
    /\ lPc = "input"
    /\ lyapunov = NullNumber
    /\ lReads = {}

LyapIdle ==
    /\ lData = <<>>
    /\ lChannel = "x"
    /\ lPc = "idle"
    /\ lyapunov = NullNumber
    /\ lReads = {}

\* StatusBar / MetricsCards: lyapunov = calculateLyapunovExponent(samples)
CalculateLyapunov ==
    /\ lPc = "input"
    /\ lyapunov' = calculateLyapunovExponent(lData, lChannel)
    /\ lReads' = LyapunovReads(lData)
    /\ lPc' = "done"
    /\ UNCHANGED <<lData, lChannel>>

(***************************************************************************)
(* Regime classifier.  The exponent is in units of 0.001, the confidence    *)
(* in units of 0.01.                                                        *)
(***************************************************************************)
MaxLyapunov == 120

Number(v) == [null |-> FALSE, value |-> v]
NullValue == [null |-> TRUE, value |-> 0]

classifyInclusive(l) ==
    IF l.null THEN [state |-> "Unknown", confidence |-> 0]
    ELSE IF l.value <= -50 THEN [state |-> "Stable / Fixed Point", confidence |-> 90]
    ELSE IF l.value < -10 THEN [state |-> "Stable", confidence |-> 70]
    ELSE IF l.value < 10 THEN [state |-> "Periodic / Limit Cycle", confidence |-> 80]
    ELSE IF l.value < 100 THEN [state |-> "Quasi-Periodic", confidence |-> 70]
    ELSE [state |-> "Chaotic", confidence |-> 85]

classifyDynamicalState(l) ==
    IF l.null THEN [state |-> "Unknown", confidence |-> 0]
    ELSE IF l.value < -50 THEN [state |-> "Stable / Fixed Point", confidence |-> 90]
    ELSE IF l.value < -10 THEN [state |-> "Stable", confidence |-> 70]
    ELSE IF l.value < 10 THEN [state |-> "Periodic / Limit Cycle", confidence |-> 80]
    ELSE IF l.value < 100 THEN [state |-> "Quasi-Periodic", confidence |-> 70]
    ELSE [state |-> "Chaotic", confidence |-> 85]

NoClassification == [state |-> "", confidence |-> 0]

ClassInit ==
    /\ cInput \in {NullValue} \cup {Number(v) : v \in (-MaxLyapunov)..MaxLyapunov}
    /\ cPc = "input"
    /\ classification = NoClassification

ClassIdle ==
    /\ cInput = NullValue
    /\ cPc = "idle"
    /\ classification = NoClassification

\* StatusBar: classification = classifyDynamicalState(lyapunov)
Classify ==
    /\ cPc = "input"
    /\ classification' = classifyDynamicalState(cInput)
    /\ cPc' = "done"
    /\ UNCHANGED cInput

(***************************************************************************)
(* Regime-change detector.  History entries are in units of 0.01.           *)
(***************************************************************************)
MaxOld == 2
MaxDrop == 2

HistoryValues == {-10, 0, 11}

\* Array.prototype.slice(from, to) with code indices, negative ones counted
\* from the end, both clamped to the array
SliceIndex(len, k) == IF k < 0 THEN Max2(0, len + k) ELSE Min2(k, len)
Slice(s, from, to) ==
    LET lo == SliceIndex(Len(s), from)
        hi == SliceIndex(Len(s), to)
    IN  IF hi <= lo THEN <<>> ELSE [q \in 1..(hi - lo) |-> s[lo + q]]

\* reduce((a, b) => a + b, 0)
Sum(s) ==
    LET F[n \in 0..Len(s)] == IF n = 0 THEN 0 ELSE F[n - 1] + s[n]
    IN  F[Len(s)]

\* history.slice(-20, -10)
OlderFromStart(h) == Slice(h, 0, 10)
Older(h) == Slice(h, -20, -10)

\* Math.abs(recentAvg - olderAvg) > 0.1, the averages being sum / length:
\* with both lengths 10 and entries in units of 0.01 this is
\* |sum(recent) - sum(older)| > 100
detectRegimeChange(h) ==
    IF Len(h) < 20 THEN FALSE
    ELSE LET recent == Slice(h, -10, Len(h))
             older == Older(h)
         IN  Abs(Sum(recent) * Len(older) - Sum(older) * Len(recent))
                 > 10 * Len(recent) * Len(older)

RegimeInit ==
    /\ \E old \in SeqsOf(HistoryValues, 0, MaxOld) :
       \E po \in SeqsOf(HistoryValues, 1, 2) :
       \E pr \in SeqsOf(HistoryValues, 1, 2) :
       \E drop \in 0..MaxDrop :
          LET full == old \o Repeat(po, 10) \o Repeat(pr, 10)
          IN  history = SubSeq(full, drop + 1, Len(full))
    /\ rPc = "input"
    /\ regimeChange = FALSE

RegimeIdle ==
    /\ history = <<>>
    /\ rPc = "idle"
    /\ regimeChange = FALSE

\* MetricsCards: regimeChange = detectRegimeChange(lyapunovHistory)
DetectRegimeChange ==
    /\ rPc = "input"
    /\ regimeChange' = detectRegimeChange(history)
    /\ rPc' = "done"
    /\ UNCHANGED history

(***************************************************************************)
(* The playground store.  A sample is identified by an integer: live        *)
(* sample k (the k-th delivered by the stream) is k, the samples of the     *)
(* recording found in the browser store at mount are negative.  Each        *)
(* action is one handler run to completion on the UI thread.                *)
(***************************************************************************)
\* bufferSize = 1000 by default; the model runs the hook with a small one
bufferSize == 2
MaxLive == 3
MaxBatch == 2
StoredLen == 12
MaxRecordings == 2

\* state.playbackPosition + 10
PlaybackStep == 10
\* playbackPosition -/+ 100
SkipStep == 100

\* selectedRecording: null
NoSelection == ""
RecordingIds == {"t1", "t2"}

\* the recording found in the nld_recordings entry at mount
StoredRecording == [id |-> "r0", data |-> [q \in 1..StoredLen |-> -q]]

(***************************************************************************)
(* The nld_recordings entry of localStorage.  getItem gives null (absent)   *)
(* or a text; a text is empty, not JSON (garbage), or a JSON document.  A   *)
(* document is a tree of JSON values; a recording is written as an object   *)
(* with its id and the array of its samples, a sample as a JSON number.     *)
(* Every sample of the store is a finite number (it was parsed from a       *)
(* stream message), which JSON.stringify writes as a number that JSON.parse *)
(* reads back; a non-finite one would be written as null.                   *)
(***************************************************************************)
JsonValue(type, items) == [type |-> type, items |-> items]
JsonArray(items) == JsonValue("array", items)
JsonNumber(v) == [type |-> "number", value |-> v]
JsonNull == [type |-> "null", value |-> 0]
IsFinite(v) == v \in Int

\* a writer that loses the number
StringifySampleAsNull(v) == JsonNull
\* JSON.stringify of a sample and of a recording
StringifySample(v) == IF IsFinite(v) THEN JsonNumber(v) ELSE JsonNull
StringifyRecording(r) ==
    [type |-> "object", id |-> r.id,
     data |-> JsonArray([q \in 1..Len(r.data) |-> StringifySample(r.data[q])])]

Absent == [kind |-> "absent", doc |-> JsonValue("none", <<>>)]
EmptyText == [kind |-> "empty", doc |-> JsonValue("none", <<>>)]
Garbage == [kind |-> "garbage", doc |-> JsonValue("none", <<>>)]
JsonText(doc) == [kind |-> "json", doc |-> doc]

\* JSON.stringify(existing)
Stringify(recs) ==
    JsonText(JsonArray([q \in 1..Len(recs) |-> StringifyRecording(recs[q])]))

\* JSON.parse of a recording object
ParseRecording(obj) ==
    [id |-> obj.id, data |-> [q \in 1..Len(obj.data.items) |-> obj.data.items[q].value]]

\* what a loader returns: an array, or the value of a document that is no
\* array (null, an object, a number, a string)
ArrayResult(items) == [isArray |-> TRUE, type |-> "array", items |-> items]
OtherResult(type) == [isArray |-> FALSE, type |-> type, items |-> <<>>]

\* try { stored = getItem(...); return stored ? JSON.parse(stored) : [] }
\* catch { return [] }: null and "" are falsy, JSON.parse throws on garbage
loadRecordings(content) ==
    IF content.kind \in {"absent", "empty", "garbage"} THEN ArrayResult(<<>>)
    ELSE IF content.doc.type = "array"
    THEN ArrayResult([q \in 1..Len(content.doc.items) |-> ParseRecording(content.doc.items[q])])
    ELSE OtherResult(content.doc.type)

\* recordings.find((r) => r.id === id): the first match, <<>> for undefined
Find(recs, id) ==
    LET hits == SelectSeq(recs, LAMBDA r : r.id = id)
    IN  IF hits = <<>> THEN <<>> ELSE <<hits[1]>>

\* arr.slice(0, n) for n >= 0
Prefix(arr, n) == SubSeq(arr, 1, Min2(n, Len(arr)))

\* merged.slice(Math.max(0, merged.length - bufferSize))
Trim(merged, size) == SubSeq(merged, Max2(0, Len(merged) - size) + 1, Len(merged))

\* the construction of dashboardStore, then the mount effect's
\* setState({ recordings: loadRecordings() })
\* [...currentState.recordedData, ...newData]
Recorded(prev, newData) == prev \o newData

\* no capture is running or waiting to be saved
NoCapture == [from |-> 0, to |-> 0, stopped |-> FALSE]

StoreInit ==
    /\ data = <<>>
    /\ isRecording = FALSE
    /\ recordedData = <<>>
    /\ selectedRecording = NoSelection
    /\ nld_recordings = Stringify(<<StoredRecording>>)
    /\ recordings = loadRecordings(nld_recordings).items
    /\ playbackPosition = 0
    /\ isPlaying = FALSE
    /\ showSaveDialog = FALSE
    /\ received = 0
    /\ savedFrom = [saved |-> FALSE, before |-> <<>>, recorded |-> <<>>]
    /\ capture = NoCapture
    /\ lastOp = "mount"

StoreIdle ==
    /\ data = <<>>
    /\ isRecording = FALSE
    /\ recordedData = <<>>
    /\ selectedRecording = NoSelection
    /\ nld_recordings = Absent
    /\ recordings = <<>>
    /\ playbackPosition = 0
    /\ isPlaying = FALSE
    /\ showSaveDialog = FALSE
    /\ received = 0
    /\ savedFrom = [saved |-> FALSE, before |-> <<>>, recorded |-> <<>>]
    /\ capture = NoCapture
    /\ lastOp = "idle"

\* ws.onmessage with a non-empty samples array of n samples
OnMessage ==
    \E n \in 1..MaxBatch :
        /\ received + n <= MaxLive
        /\ LET newData == [q \in 1..n |-> received + q]
           IN  /\ data' = IF selectedRecording = NoSelection
                          THEN Trim(data \o newData, bufferSize)
                          ELSE data
               /\ recordedData' = IF isRecording THEN Recorded(recordedData, newData)
                                  ELSE recordedData
        /\ received' = received + n
        /\ lastOp' = "message"
        /\ UNCHANGED <<isRecording, selectedRecording, recordings, playbackPosition,
                       isPlaying, showSaveDialog, nld_recordings, savedFrom, capture>>

\* malformed stream messages: text that is not JSON, JSON without a samples
\* field, JSON whose samples field is not an array
Malformed == {"unparseable", "noSamples", "notArray"}

\* ws.onmessage with text that is not JSON (JSON.parse throws inside the
\* try, the catch logs), without a samples field (msg.samples ?? []), with
\* a samples field that is not an array, or with an empty array: the
\* handler returns at line 292 or from the catch
OnMessageIgnored ==
    \E kind \in Malformed \cup {"emptyBatch"} :
        /\ lastOp' = "ignored"
        /\ UNCHANGED <<data, isRecording, recordedData, selectedRecording, recordings,
                       playbackPosition, isPlaying, showSaveDialog, nld_recordings,
                       savedFrom, capture, received>>

\* the Start button, shown while not recording
StartRecording ==
    /\ ~isRecording
    /\ isRecording' = TRUE
    /\ recordedData' = <<>>
    /\ selectedRecording' = NoSelection
    /\ capture' = [from |-> received, to |-> received, stopped |-> FALSE]
    /\ lastOp' = "startRecording"
    /\ UNCHANGED <<data, recordings, playbackPosition, isPlaying, showSaveDialog,
                   nld_recordings, savedFrom, received>>

\* the Stop button, shown while recording
StopRecording ==
    /\ isRecording
    /\ isRecording' = FALSE
    /\ showSaveDialog' = IF Len(recordedData) > 0 THEN TRUE ELSE showSaveDialog
    /\ capture' = [capture EXCEPT !.to = received, !.stopped = TRUE]
    /\ lastOp' = "stopRecording"
    /\ UNCHANGED <<data, recordedData, selectedRecording, recordings, playbackPosition,
                   isPlaying, nld_recordings, savedFrom, received>>

\* the Save button of the dialog, with a non-blank name; the id is the
\* clock reading Date.now().toString()
SaveRecording ==
    /\ showSaveDialog
    /\ LET loaded == loadRecordings(nld_recordings)
       IN  IF loaded.isArray
           THEN /\ Len(loaded.items) < MaxRecordings
                /\ \E id \in RecordingIds :
                      LET existing == Append(loaded.items,
                                             [id |-> id, data |-> recordedData])
                      IN  /\ nld_recordings' = Stringify(existing)
                          /\ recordings' = existing
                /\ recordedData' = <<>>
                /\ showSaveDialog' = FALSE
                /\ savedFrom' = [saved |-> TRUE, before |-> loaded.items,
                                 recorded |-> recordedData]
                /\ capture' = IF isRecording THEN capture ELSE NoCapture
           ELSE \* existing.push is not a function: caught and logged
                UNCHANGED <<nld_recordings, recordings, recordedData, showSaveDialog,
                            savedFrom, capture>>
    /\ lastOp' = "saveRecording"
    /\ UNCHANGED <<data, isRecording, selectedRecording, playbackPosition, isPlaying,
                   received>>

\* the Load Recording select: its items are "live" and the recordings' ids
LoadRecording ==
    \E id \in {"live"} \cup {recordings[q].id : q \in 1..Len(recordings)} :
        /\ IF id = ""
           THEN /\ selectedRecording' = NoSelection
                /\ playbackPosition' = 0
                /\ isPlaying' = FALSE
                /\ UNCHANGED <<data, isRecording>>
           ELSE LET recording == Find(recordings, id)
                IN  IF recording # <<>>
                    THEN /\ data' = recording[1].data
                         /\ selectedRecording' = id
                         /\ isRecording' = FALSE
                         /\ playbackPosition' = Len(recording[1].data)
                         /\ isPlaying' = FALSE
                    ELSE UNCHANGED <<data, selectedRecording, isRecording,
                                     playbackPosition, isPlaying>>
        \* a running capture ends here without a stop
        /\ capture' = IF isRecording /\ ~isRecording' THEN NoCapture ELSE capture
        /\ lastOp' = "loadRecording"
        /\ UNCHANGED <<recordedData, recordings, showSaveDialog, nld_recordings, savedFrom,
                       received>>

\* PlaybackControls: the recording being played and its length
PlaybackRecording == Find(recordings, selectedRecording)
maxPosition == IF PlaybackRecording # <<>> THEN Len(PlaybackRecording[1].data) ELSE 0

\* the interval callback of PlaybackControls
PlaybackTick ==
    /\ isPlaying
    /\ PlaybackRecording # <<>>
    /\ LET newPos == playbackPosition + PlaybackStep
       IN  IF newPos >= maxPosition
           THEN /\ playbackPosition' = maxPosition
                /\ isPlaying' = FALSE
                /\ UNCHANGED data
           ELSE /\ playbackPosition' = newPos
                /\ data' = Prefix(PlaybackRecording[1].data, newPos)
                /\ UNCHANGED isPlaying
    /\ lastOp' = "tick"
    /\ UNCHANGED <<isRecording, recordedData, selectedRecording, recordings,
                   showSaveDialog, nld_recordings, savedFrom, capture, received>>

\* the controls are rendered only while a recording is selected
HandlePlayPause ==
    /\ selectedRecording # NoSelection
    /\ IF playbackPosition >= maxPosition
       THEN playbackPosition' = 0 /\ isPlaying' = TRUE
       ELSE isPlaying' = ~isPlaying /\ UNCHANGED playbackPosition
    /\ lastOp' = "playPause"
    /\ UNCHANGED <<data, isRecording, recordedData, selectedRecording, recordings,
                   showSaveDialog, nld_recordings, savedFrom, capture, received>>

\* the slider positions tried: both ends, the first sample and one tick
SeekPositions == {0, 1, PlaybackStep, maxPosition} \cap (0..maxPosition)

\* the slider, disabled while playing, with a value in 0..maxPosition
HandleSeek ==
    /\ selectedRecording # NoSelection
    /\ ~isPlaying
    /\ PlaybackRecording # <<>>
    /\ \E newPos \in SeekPositions :
          /\ playbackPosition' = newPos
          /\ data' = Prefix(PlaybackRecording[1].data, newPos)
    /\ lastOp' = "seek"
    /\ UNCHANGED <<isRecording, recordedData, selectedRecording, recordings, isPlaying,
                   showSaveDialog, nld_recordings, savedFrom, capture, received>>

HandleSkipBack ==
    /\ selectedRecording # NoSelection
    /\ PlaybackRecording # <<>>
    /\ LET newPos == Max2(0, playbackPosition - SkipStep)
       IN  /\ playbackPosition' = newPos
           /\ data' = Prefix(PlaybackRecording[1].data, newPos)
    /\ lastOp' = "skipBack"
    /\ UNCHANGED <<isRecording, recordedData, selectedRecording, recordings, isPlaying,
                   showSaveDialog, nld_recordings, savedFrom, capture, received>>

HandleSkipForward ==
    /\ selectedRecording # NoSelection
    /\ PlaybackRecording # <<>>
    /\ LET newPos == Min2(maxPosition, playbackPosition + SkipStep)
       IN  /\ playbackPosition' = newPos
           /\ data' = Prefix(PlaybackRecording[1].data, newPos)
    /\ lastOp' = "skipForward"
    /\ UNCHANGED <<isRecording, recordedData, selectedRecording, recordings, isPlaying,
                   showSaveDialog, nld_recordings, savedFrom, capture, received>>

(***************************************************************************)
(* SensorDashboard of components/visualization/page.tsx.  storeRef and      *)
(* extremaRef are refs; visibleData, currentIndex, totalCount, normalize    *)
(* and isPlaying are component state.  The socket handler is created by an  *)
(* effect with an empty dependency list, so it keeps the updateVisibleWindow *)
(* of the mount render, whose normalize is the initial state (true); the    *)
(* other handlers belong to the current render.  A channel value of the     *)
(* visible window is the rational num/den.                                  *)
(***************************************************************************)
\* WINDOW_SIZE = 1_000 in the code; the model renders a small window
WINDOW_SIZE == 2
FACTOR == 1
MaxStore == 3
MaxDashBatch == 2
MaxFrameAdvance == 2

\* a sample is the array [ch1, ch2, ch3]
DashSamples == {<<0, 0, 5>>, <<2, 4, 5>>, <<4, 1, 5>>}

\* an extremum: a number, or +Infinity / -Infinity (sign 1 / -1)
Finite(x) == [fin |-> TRUE, v |-> x]
PosInfinity == [fin |-> FALSE, v |-> 1]
NegInfinity == [fin |-> FALSE, v |-> -1]
\* s < e and s > e for a number s and an extremum e
LessThan(s, e) == IF e.fin THEN s < e.v ELSE e.v > 0
GreaterThan(s, e) == IF e.fin THEN s > e.v ELSE e.v < 0

SentinelExtrema ==
    [min |-> <<PosInfinity, PosInfinity, PosInfinity>>,
     max |-> <<NegInfinity, NegInfinity, NegInfinity>>]

\* what the stream delivers: a malformed message, or JSON with an array of
\* samples (possibly empty)
Message(kind, samples) == [kind |-> kind, samples |-> samples]
DashMessages ==
    {Message(k, <<>>) : k \in Malformed}
        \cup {Message("batch", s) : s \in SeqsOf(DashSamples, 0, MaxDashBatch)}

\* the forEach over the samples of a batch
FoldExtrema(ext, samples) ==
    LET F[n \in 0..Len(samples)] ==
            IF n = 0 THEN ext
            ELSE [min |-> [i \in 1..3 |->
                              IF LessThan(samples[n][i], F[n - 1].min[i])
                              THEN Finite(samples[n][i]) ELSE F[n - 1].min[i]],
                  max |-> [i \in 1..3 |->
                              IF GreaterThan(samples[n][i], F[n - 1].max[i])
                              THEN Finite(samples[n][i]) ELSE F[n - 1].max[i]]]
    IN  F[Len(samples)]

\* newData.samples.map((sample, idx) => ({ index: base + idx, ... }))
TrajectoryPoints(base, samples) ==
    [q \in 1..Len(samples) |->
        [index |-> base + q - 1, ch1 |-> samples[q][1], ch2 |-> samples[q][2],
         ch3 |-> samples[q][3]]]

Rat(num, den) == [num |-> num, den |-> den]

\* a variant without the midpoint: 0 when the range is not positive
normalizeValueNoMidpoint(ext, v, i) ==
    IF ext.min[i].fin /\ ext.max[i].fin /\ ext.max[i].v - ext.min[i].v > 0
    THEN Rat(FACTOR * (v - ext.min[i].v), ext.max[i].v - ext.min[i].v)
    ELSE Rat(0, 1)
\* range > 0 ? (FACTOR * (v - min)) / range : FACTOR * 0.5; Infinity -
\* Infinity and -Infinity - Infinity are not > 0
normalizeValue(ext, v, i) ==
    IF ext.min[i].fin /\ ext.max[i].fin /\ ext.max[i].v - ext.min[i].v > 0
    THEN Rat(FACTOR * (v - ext.min[i].v), ext.max[i].v - ext.min[i].v)
    ELSE Rat(FACTOR, 2)

\* a point of the window: normalised, or the stored point itself
WindowPoint(ext, p, norm) ==
    IF norm
    THEN [index |-> p.index, ch1 |-> normalizeValue(ext, p.ch1, 1),
          ch2 |-> normalizeValue(ext, p.ch2, 2), ch3 |-> normalizeValue(ext, p.ch3, 3)]
    ELSE [index |-> p.index, ch1 |-> Rat(p.ch1, 1), ch2 |-> Rat(p.ch2, 1),
          ch3 |-> Rat(p.ch3, 1)]

\* Math.max(0, clampedIdx - WINDOW_SIZE + 1), a code index
WindowStart(clampedIdx) == Max2(0, clampedIdx - WINDOW_SIZE + 1)

\* updateVisibleWindow(idx) of a render whose normalize is norm, on the
\* store st and the extrema ext: the values it sets
updateVisibleWindow(st, ext, idx, norm) ==
    LET n == Len(st)
        clampedIdx == Min2(idx, n - 1)
        start == WindowStart(clampedIdx)
    IN  IF n = 0 \/ idx < 0
        THEN [visibleData |-> <<>>, currentIndex |-> -1, totalCount |-> 0]
        ELSE [visibleData |->
                 [q \in 1..(clampedIdx + 1 - start) |-> WindowPoint(ext, st[start + q], norm)],
              currentIndex |-> clampedIdx,
              totalCount |-> n]

\* Math.max(0, totalCount - 1)
maxIndex == Max2(0, totalCount - 1)

DashInit ==
    /\ storeRef = <<>>
    /\ extremaRef = SentinelExtrema
    /\ visibleData = <<>>
    /\ currentIndex = -1
    /\ totalCount = 0
    /\ normalize = TRUE
    /\ dashIsPlaying = FALSE
    /\ playHeadRef = 0
    /\ dashReceived = <<>>
    /\ dashBefore = <<>>
    /\ dashThrown = "none"
    /\ dashOp = "mount"
    /\ dashWasReset = FALSE

DashIdle ==
    /\ storeRef = <<>>
    /\ extremaRef = SentinelExtrema
    /\ visibleData = <<>>
    /\ currentIndex = -1
    /\ totalCount = 0
    /\ normalize = TRUE
    /\ dashIsPlaying = FALSE
    /\ playHeadRef = 0
    /\ dashReceived = <<>>
    /\ dashBefore = <<>>
    /\ dashThrown = "none"
    /\ dashOp = "idle"
    /\ dashWasReset = FALSE

\* the three state setters of updateVisibleWindow
SetWindow(w) ==
    /\ visibleData' = w.visibleData
    /\ currentIndex' = w.currentIndex
    /\ totalCount' = w.totalCount

\* socket.onmessage.  JSON.parse throws a SyntaxError on text that is not
\* JSON (line 547); newData.samples.forEach throws a TypeError when samples
\* is undefined or has no forEach (line 550).  Neither is caught.
DashOnMessage ==
    \E msg \in DashMessages :
        /\ Len(storeRef) + Len(msg.samples) <= MaxStore
        /\ IF msg.kind \in Malformed
           THEN /\ dashThrown' = IF msg.kind = "unparseable" THEN "SyntaxError"
                                  ELSE "TypeError"
                /\ dashBefore' = <<storeRef, extremaRef>>
                /\ dashOp' = msg.kind
                /\ UNCHANGED <<storeRef, extremaRef, visibleData, currentIndex,
                               totalCount, dashReceived>>
           ELSE LET base == Len(storeRef)
                    trajectoryPoints == TrajectoryPoints(base, msg.samples)
                    st == storeRef \o trajectoryPoints
                    ext == FoldExtrema(extremaRef, msg.samples)
                    newHead == base + Len(trajectoryPoints) - 1
                IN  /\ extremaRef' = ext
                    /\ storeRef' = st
                    /\ SetWindow(updateVisibleWindow(st, ext, newHead, TRUE))
                    /\ dashReceived' = dashReceived \o msg.samples
                    /\ dashBefore' = IF msg.samples = <<>>
                                     THEN <<storeRef, extremaRef>> ELSE <<>>
                    /\ dashThrown' = "none"
                    /\ dashOp' = IF msg.samples = <<>> THEN "emptyBatch" ELSE "batch"
        /\ UNCHANGED <<normalize, dashIsPlaying, playHeadRef, dashWasReset>>

\* the extrema handleReset leaves
ExtremaKept(ext) == ext
ExtremaAfterReset(ext) == SentinelExtrema

DashHandleReset ==
    /\ storeRef' = <<>>
    /\ extremaRef' = ExtremaAfterReset(extremaRef)
    /\ visibleData' = <<>>
    /\ currentIndex' = -1
    /\ totalCount' = 0
    /\ dashIsPlaying' = FALSE
    /\ playHeadRef' = 0
    /\ dashReceived' = <<>>
    /\ dashBefore' = <<>>
    /\ dashThrown' = "none"
    /\ dashOp' = "reset"
    /\ dashWasReset' = TRUE
    /\ UNCHANGED normalize

\* the timeline slider: values 0..maxIndex, disabled when maxIndex is 0
HandleScrub ==
    /\ maxIndex # 0
    /\ \E val \in 0..maxIndex :
          /\ SetWindow(updateVisibleWindow(storeRef, extremaRef, val, normalize))
          /\ playHeadRef' = val
    /\ dashBefore' = <<>>
    /\ dashThrown' = "none"
    /\ dashOp' = "scrub"
    /\ UNCHANGED <<storeRef, extremaRef, normalize, dashIsPlaying, dashReceived,
                   dashWasReset>>

\* the Play / Pause button
DashTogglePlay ==
    /\ dashIsPlaying' = ~dashIsPlaying
    /\ dashBefore' = <<>>
    /\ dashThrown' = "none"
    /\ dashOp' = "play"
    /\ UNCHANGED <<storeRef, extremaRef, visibleData, currentIndex, totalCount,
                   normalize, playHeadRef, dashReceived, dashWasReset>>

\* the normalize button, then the effect on [normalize] of the new render
ToggleNormalize ==
    /\ normalize' = ~normalize
    /\ IF totalCount > 0 /\ currentIndex >= 0
       THEN SetWindow(updateVisibleWindow(storeRef, extremaRef, currentIndex, ~normalize))
       ELSE UNCHANGED <<visibleData, currentIndex, totalCount>>
    /\ dashBefore' = <<>>
    /\ dashThrown' = "none"
    /\ dashOp' = "normalize"
    /\ UNCHANGED <<storeRef, extremaRef, dashIsPlaying, playHeadRef, dashReceived,
                   dashWasReset>>

\* PlayheadAnimator's useFrame callback; speed * delta is a whole number of
\* samples in the model
PlayheadStep ==
    /\ dashIsPlaying
    /\ maxIndex > 0
    /\ \E adv \in 1..MaxFrameAdvance :
          LET head == Min2(maxIndex, playHeadRef + adv)
          IN  /\ playHeadRef' = head
              /\ IF head # currentIndex
                 THEN SetWindow(updateVisibleWindow(storeRef, extremaRef, head, normalize))
                 ELSE UNCHANGED <<visibleData, currentIndex, totalCount>>
    /\ dashBefore' = <<>>
    /\ dashThrown' = "none"
    /\ dashOp' = "frame"
    /\ UNCHANGED <<storeRef, extremaRef, normalize, dashIsPlaying, dashReceived,
                   dashWasReset>>

(***************************************************************************)
(* The two other accumulators of streamed points: SensorDashboard of        *)
(* app/visualization/page.tsx (state allData, currentIndex) and             *)
(* ControlPanel, which feeds the experiment store of lib/store.ts (data,    *)
(* currentIndex).                                                           *)
(*                                                                          *)
(* The app dashboard's socket handler is created by an effect with an empty *)
(* dependency list: the allData it reads is the one of the mount render,    *)
(* the empty array.  ControlPanel's effect lists data.length among its      *)
(* dependencies, so its handler is rebuilt, with the current data, after    *)
(* every change of the length.                                              *)
(***************************************************************************)
MaxHistory == 4

\* allData of the render that ran the socket effect
MountAllData == <<>>

\* sample[0] || 0 on a number
OrZero(v) == IF v = 0 THEN 0 ELSE v

AppInit ==
    /\ allData = <<>>
    /\ appCurrentIndex = 0
    /\ appIsPlaying = FALSE
    /\ histOp = "mount"

HistIdle ==
    /\ allData = <<>>
    /\ appCurrentIndex = 0
    /\ appIsPlaying = FALSE
    /\ histOp = "idle"

\* socket.onmessage of the app dashboard, on a message with a samples array
AppOnMessage ==
    \E samples \in SeqsOf(DashSamples, 0, MaxDashBatch) :
        /\ Len(allData) + Len(samples) <= MaxHistory
        /\ LET trajectoryPoints == TrajectoryPoints(Len(MountAllData), samples)
           IN  /\ allData' = allData \o trajectoryPoints
               /\ appCurrentIndex' = appCurrentIndex + Len(trajectoryPoints)
        /\ histOp' = "appMessage"
        /\ UNCHANGED appIsPlaying

AppHandleReset ==
    /\ allData' = <<>>
    /\ appCurrentIndex' = 0
    /\ appIsPlaying' = FALSE
    /\ histOp' = "appReset"

(***************************************************************************)
(* The three loaders of the persisted recordings list: loadRecordings of    *)
(* playground-view.tsx and of export-view.tsx, and the mount effect of the  *)
(* delete view.  All three have the same body.  The entry can hold          *)
(* anything: localStorage is shared by every script of the origin.          *)
(***************************************************************************)
MaxStoredList == 2

Loaders == {"playground", "export", "deleteView"}
LoaderRecordings == {[id |-> "a", data |-> <<1, 2>>], [id |-> "b", data |-> <<>>]}

\* the contents of the entry the loaders are run on
EntryContents ==
    {Absent, EmptyText, Garbage}
        \cup {JsonText(JsonValue(t, <<>>)) : t \in {"null", "object", "number", "string"}}
        \cup {Stringify(recs) : recs \in SeqsOf(LoaderRecordings, 0, MaxStoredList)}

NotRun == [ran |-> FALSE, raised |-> FALSE, result |-> ArrayResult(<<>>)]
\* the whole body is inside try / catch: nothing is raised
Returned(result) == [ran |-> TRUE, raised |-> FALSE, result |-> result]

LoaderInit ==
    /\ entry \in EntryContents
    /\ loads = [w \in Loaders |-> NotRun]

LoaderIdle ==
    /\ entry = Absent
    /\ loads = [w \in Loaders |-> NotRun]

\* loadRecordings() of playground-view.tsx
LoadPlayground ==
    /\ ~loads["playground"].ran
    /\ loads' = [loads EXCEPT !["playground"] = Returned(loadRecordings(entry))]
    /\ UNCHANGED entry

\* loadRecordings() of export-view.tsx
LoadExport ==
    /\ ~loads["export"].ran
    /\ loads' = [loads EXCEPT !["export"] = Returned(loadRecordings(entry))]
    /\ UNCHANGED entry

\* the mount effect of DeleteRecordingsView: setRecordings(...)
LoadDeleteView ==
    /\ ~loads["deleteView"].ran
    /\ loads' = [loads EXCEPT !["deleteView"] = Returned(loadRecordings(entry))]
    /\ UNCHANGED entry

(***************************************************************************)
(* Anomaly score.  Channel values are integers; a mean and the score are    *)
(* exact quotients num/den with den > 0.                                    *)
(***************************************************************************)
AnomalyPattern == 2
AnomalyExtra == 1

AnomalySamples == { [x |-> 0], [x |-> 3], [x |-> -2], [y |-> 5] }
BaselinePatterns == { <<q>> : q \in AnomalySamples } \cup { <<[x |-> 3], [x |-> -2]>> }

\* baselineData: ChannelMap[] | null
NullBaseline == [null |-> TRUE, samples |-> <<>>]
Baseline(samples) == [null |-> FALSE, samples |-> samples]

\* a.num/a.den = b.num/b.den
RatEq(a, b) == a.num * b.den = b.num * a.den

\* the same quotient in lowest terms
RECURSIVE Gcd(_, _)
Gcd(a, b) == IF b = 0 THEN a ELSE Gcd(b, a % b)
Reduce(r) ==
    LET g == Gcd(r.den, Abs(r.num)) IN Rat(r.num \div g, r.den \div g)

\* a variant that takes any length
ShorterThan10Never(samples) == FALSE
\* .length < 10
ShorterThan10(samples) == Len(samples) < 10

\* the divisor of the reduce: 50, whatever the number of samples summed
MeanDivisor(window) == 50

\* samples.slice(-50).reduce((sum, d) => sum + (d.x || 0), 0) / 50
MeanOfLast50(samples) ==
    LET window == Slice(samples, -50, Len(samples))
    IN  Rat(Sum([q \in 1..Len(window) |-> GetOrFalsy0(window[q], "x")]), MeanDivisor(window))

calculateAnomalyScore(current, baseline) ==
    IF baseline.null \/ ShorterThan10(baseline.samples) \/ ShorterThan10(current)
    THEN Rat(0, 1)
    ELSE LET currentMean == MeanOfLast50(current)
             baselineMean == MeanOfLast50(baseline.samples)
             \* Math.abs(currentMean - baselineMean)
             diff == Reduce(Rat(Abs(currentMean.num * baselineMean.den
                                    - baselineMean.num * currentMean.den),
                                currentMean.den * baselineMean.den))
         IN  \* Math.abs(baselineMean) || 1
             IF baselineMean.num = 0 THEN diff
             ELSE Reduce(Rat(diff.num * baselineMean.den, diff.den * Abs(baselineMean.num)))

NoScore == Rat(-1, 1)

AnomalyLengths == {0, 9, 10, 30, 50, 50 + AnomalyExtra}

AnomalyInit ==
    /\ \E pat \in SeqsOf(AnomalySamples, 1, AnomalyPattern) : \E n \in AnomalyLengths :
          aCurrent = Repeat(pat, n)
    /\ \/ aBaseline = NullBaseline
       \/ aBaseline = Baseline(aCurrent)
       \/ \E pat \in BaselinePatterns : \E n \in AnomalyLengths :
             aBaseline = Baseline(Repeat(pat, n))
    /\ aPc = "input"
    /\ anomalyScore = NoScore

AnomalyIdle ==
    /\ aCurrent = <<>>
    /\ aBaseline = NullBaseline
    /\ aPc = "idle"
    /\ anomalyScore = NoScore

\* MetricsCards: anomalyScore = calculateAnomalyScore(data, baselineData)
CalculateAnomalyScore ==
    /\ aPc = "input"
    /\ anomalyScore' = calculateAnomalyScore(aCurrent, aBaseline)
    /\ aPc' = "done"
    /\ UNCHANGED <<aCurrent, aBaseline>>

(***************************************************************************)
(* The Lyapunov estimator on a doubling sequence.  A value 2^e is far       *)
(* outside the integers of the model for the 100 samples the estimator      *)
(* asks for, so here a channel value is carried as its exponent e: the      *)
(* sequence is x[i] = 2^(start + i), the delta at code index i is           *)
(* |2^(start+i+1) - 2^(start+i)| = 2^(start+i), and Math.log of it is       *)
(* (start + i) * ln 2.  The estimate is kept in units of ln 2, as the sum   *)
(* of the counted exponents and their number.                               *)
(***************************************************************************)
MaxNegExponent == 60
MaxPosExponent == 10
GrowthExtra == 20

\* data.map((d) => d[channel] || 0) of the doubling sequence, as exponents:
\* no value is 0
DoublingExponents(start, len) == [q \in 1..len |-> start + q - 1]

\* the exponent of Math.abs(next - current) at code index i
DeltaExponent(exps, i) == exps[i + 1]

\* 2^e > 1e-10: 2^-33 = 1.16e-10, 2^-34 = 5.8e-11
AboveThreshold(e) == e >= -33

NullEstimate == [null |-> TRUE, sumExp |-> 0, count |-> 0]

\* sum += Math.log(delta) over the counted indices counted[lo..hi], the
\* additions grouped by halves
RECURSIVE SumLogDeltas(_, _, _, _)
SumLogDeltas(exps, counted, lo, hi) ==
    IF lo > hi THEN 0
    ELSE IF lo = hi THEN DeltaExponent(exps, counted[lo])
    ELSE LET mid == (lo + hi) \div 2
         IN  SumLogDeltas(exps, counted, lo, mid) + SumLogDeltas(exps, counted, mid + 1, hi)

\* calculateLyapunovExponent(data) for data of the doubling sequence
calculateLyapunovExponentDoubling(start, len) ==
    IF len < MinLyapSamples THEN NullEstimate
    ELSE
    LET exps == DoublingExponents(start, len)
        visited == [q \in 1..Cardinality(LoopIndices(len)) |-> LoopStart(len) + q - 1]
        counted == SelectSeq(visited, LAMBDA i : AboveThreshold(DeltaExponent(exps, i)))
    IN  IF Len(counted) > 0
        THEN [null |-> FALSE,
              sumExp |-> SumLogDeltas(exps, counted, 1, Len(counted)),
              count |-> Len(counted)]
        ELSE NullEstimate

GrowthInit ==
    /\ gStart \in (-MaxNegExponent)..MaxPosExponent
    /\ gLen \in {MinLyapSamples - 1, MinLyapSamples, MinLyapSamples + 1,
                 MinLyapSamples + GrowthExtra}
    /\ gPc = "input"
    /\ gEstimate = NullEstimate

GrowthIdle ==
    /\ gStart = 0
    /\ gLen = 0
    /\ gPc = "idle"
    /\ gEstimate = NullEstimate

\* StatusBar / MetricsCards: lyapunov = calculateLyapunovExponent(data)
CalculateLyapunovDoubling ==
    /\ gPc = "input"
    /\ gEstimate' = calculateLyapunovExponentDoubling(gStart, gLen)
    /\ gPc' = "done"
    /\ UNCHANGED <<gStart, gLen>>

(***************************************************************************)
(* The binary stream hooks.  A payload is the sequence of its unsigned      *)
(* 16-bit words, possibly followed by one odd byte; a decoded channel is    *)
(* NaN or an exact quotient num/den.  The hooks keep the last 500 and the   *)
(* last 1000 points; the model runs them with small limits.                 *)
(***************************************************************************)
MaxWords == 4
PhaseSpaceLimit == 2
TimeSeriesLimit == 3

Hooks == {"phaseSpace", "timeSeries"}
KeepLimit(hook) == IF hook = "phaseSpace" THEN PhaseSpaceLimit ELSE TimeSeriesLimit

RawWords == {0, 65535}

TextFrame == [binary |-> FALSE, words |-> <<>>, oddByte |-> FALSE]
BinaryFrame(words, oddByte) == [binary |-> TRUE, words |-> words, oddByte |-> oddByte]
Frames ==
    {TextFrame} \cup {BinaryFrame(w, o) : w \in SeqsOf(RawWords, 0, MaxWords), o \in BOOLEAN}

NaN == [nan |-> TRUE, num |-> 0, den |-> 1]

\* buffer[k], k a code index: undefined past the end of the typed array
WordAt(buffer, k) ==
    IF k < Len(buffer) THEN [defined |-> TRUE, raw |-> buffer[k + 1]]
    ELSE [defined |-> FALSE, raw |-> 0]

\* (val / 65535) * 50 - 25; undefined / 65535 is NaN
denormalize(val) ==
    IF val.defined THEN [nan |-> FALSE, num |-> val.raw * 50 - 25 * 65535, den |-> 65535]
    ELSE NaN

\* for (let i = 0; i < numSamples; i++) with numSamples = buffer.length / 3,
\* a quotient that is no integer when the length is no multiple of 3: the
\* number of i >= 0 below it
NumSamples(buffer) == (Len(buffer) + 2) \div 3

\* the samples the loop pushes
Decode(buffer) ==
    [q \in 1..NumSamples(buffer) |->
        [ch1 |-> denormalize(WordAt(buffer, 3 * (q - 1))),
         ch2 |-> denormalize(WordAt(buffer, 3 * (q - 1) + 1)),
         ch3 |-> denormalize(WordAt(buffer, 3 * (q - 1) + 2))]]

BinaryInit ==
    /\ binHook \in Hooks
    /\ binData = <<>>
    /\ binOp = "mounted"
    /\ binWords = 0
    /\ binAppended = 0

BinaryIdle ==
    /\ binHook = "none"
    /\ binData = <<>>
    /\ binOp = "idle"
    /\ binWords = 0
    /\ binAppended = 0

\* ws.onmessage
BinaryOnMessage ==
    \E frame \in Frames :
        /\ binWords' = Len(frame.words)
        /\ IF ~frame.binary
           THEN \* !(event.data instanceof ArrayBuffer)
                /\ binOp' = "ignored"
                /\ binAppended' = 0
                /\ UNCHANGED binData
           ELSE IF frame.oddByte
           THEN \* new Uint16Array(event.data) throws a RangeError, caught
                /\ binOp' = "caught"
                /\ binAppended' = 0
                /\ UNCHANGED binData
           ELSE LET newSamples == Decode(frame.words)
                    updated == binData \o newSamples
                IN  /\ binData' = Trim(updated, KeepLimit(binHook))
                    /\ binOp' = "decoded"
                    /\ binAppended' = Len(newSamples)
        /\ UNCHANGED binHook

(***************************************************************************)
(* The effect that owns a stream connection.  One instance of the effect    *)
(* is followed from its run to after its cleanup.  A socket is connecting,  *)
(* open, closing (its close event is queued) or closed (its onclose has     *)
(* run); a timer is pending, fired or cleared.  Each action is one          *)
(* callback run to completion.                                              *)
(***************************************************************************)
MaxSockets == 4
MaxTimers == 4

StreamHooks == {"controlPanel", "sharedXYZ", "phaseSpace", "timeSeries"}
\* the two useWebSocketData hooks
BinaryHooks == {"phaseSpace", "timeSeries"}

\* the closure's isConnected in ControlPanel: the effect body got past
\* `if (!isConnected) ... return`, and the callbacks read that constant
ClosureIsConnected == TRUE

\* new WebSocket(url), assigned to the hook's variable or ref
NewSocket ==
    /\ sockets' = Append(sockets, "connecting")
    /\ wsRef' = Len(sockets) + 1
    /\ createdAfter' = (createdAfter \/ tornDown)

\* connect() returns at once.  (The constructor throws only for a url it
\* rejects, and the first call of this instance, same url, did not.)
NoSocket == UNCHANGED <<sockets, wsRef, createdAfter>>

\* setTimeout(...), the id kept where the hook keeps it
NewTimer(keep) ==
    /\ timers' = Append(timers, "pending")
    /\ timerRef' = IF keep THEN Len(timers) + 1 ELSE timerRef

\* connect(): `if (!active) return` in useSharedXYZData, `if (!isActive)
\* return` in useWebSocketData; connectWebSocket() of ControlPanel is called
\* under `if (isConnected)`, the closure's constant
MayConnect(hook) == IF hook = "controlPanel" THEN ClosureIsConnected ELSE active

\* ws.close()
Close(socks, i) ==
    IF i # 0 /\ socks[i] \in {"connecting", "open"}
    THEN [socks EXCEPT ![i] = "closing"] ELSE socks

\* clearTimeout(id)
Clear(tms, t) ==
    IF t # 0 /\ tms[t] = "pending" THEN [tms EXCEPT ![t] = "cleared"] ELSE tms

StreamInit ==
    /\ sHook \in StreamHooks
    \* the effect body has called connect()
    /\ sockets = <<"connecting">>
    /\ wsRef = 1
    /\ timers = <<>>
    /\ timerRef = 0
    /\ active = TRUE
    /\ tornDown = FALSE
    /\ createdAfter = FALSE

StreamIdle ==
    /\ sHook = "none"
    /\ sockets = <<>>
    /\ wsRef = 0
    /\ timers = <<>>
    /\ timerRef = 0
    /\ active = FALSE
    /\ tornDown = FALSE
    /\ createdAfter = FALSE

\* ws.onopen
SocketOpens ==
    \E i \in 1..Len(sockets) :
        /\ sockets[i] = "connecting"
        /\ sockets' = [sockets EXCEPT ![i] = "open"]
        /\ UNCHANGED <<sHook, wsRef, timers, timerRef, active, tornDown, createdAfter>>

\* the connection fails or the server closes it: the close event is queued
\* (ws.onerror of useSharedXYZData calls ws.close(), to the same effect)
SocketFails ==
    \E i \in 1..Len(sockets) :
        /\ sockets[i] \in {"connecting", "open"}
        /\ sockets' = [sockets EXCEPT ![i] = "closing"]
        /\ UNCHANGED <<sHook, wsRef, timers, timerRef, active, tornDown, createdAfter>>

\* ws.onclose
SocketOnClose ==
    \E i \in 1..Len(sockets) :
        /\ sockets[i] = "closing"
        /\ sockets' = [sockets EXCEPT ![i] = "closed"]
        /\ CASE sHook = "sharedXYZ" ->
                  \* scheduleReconnect(): if (reconnectTimer) return
                  /\ IF timerRef # 0 THEN UNCHANGED <<timers, timerRef>>
                     ELSE Len(timers) < MaxTimers /\ NewTimer(TRUE)
                  /\ UNCHANGED wsRef
             [] sHook \in BinaryHooks ->
                  \* if (isActive) setTimeout(connect, 3000)
                  /\ IF active THEN Len(timers) < MaxTimers /\ NewTimer(FALSE)
                     ELSE UNCHANGED <<timers, timerRef>>
                  /\ UNCHANGED wsRef
             [] sHook = "controlPanel" ->
                  \* socketRef.current = null; if (isConnected)
                  \* reconnectTimeoutRef.current = setTimeout(...)
                  /\ wsRef' = 0
                  /\ IF ClosureIsConnected THEN Len(timers) < MaxTimers /\ NewTimer(TRUE)
                     ELSE UNCHANGED <<timers, timerRef>>
        /\ UNCHANGED <<sHook, active, tornDown, createdAfter>>

\* a reconnect timer fires
TimerFires ==
    \E t \in 1..Len(timers) :
        /\ timers[t] = "pending"
        /\ timers' = [timers EXCEPT ![t] = "fired"]
        \* reconnectTimer = null in useSharedXYZData
        /\ timerRef' = IF sHook = "sharedXYZ" THEN 0 ELSE timerRef
        /\ IF MayConnect(sHook)
           THEN Len(sockets) < MaxSockets /\ NewSocket
           ELSE NoSocket
        /\ UNCHANGED <<sHook, active, tornDown>>

\* the cleanup: unmount, a changed dependency, or a disconnect by the user
Teardown ==
    /\ ~tornDown
    /\ tornDown' = TRUE
    /\ CASE sHook = "sharedXYZ" ->
              \* active = false; ws?.close(); if (reconnectTimer) clearTimeout
              /\ active' = FALSE
              /\ sockets' = Close(sockets, wsRef)
              /\ timers' = Clear(timers, timerRef)
              /\ UNCHANGED <<wsRef, timerRef>>
         [] sHook \in BinaryHooks ->
              \* isActive = false; wsRef.current?.close()
              /\ active' = FALSE
              /\ sockets' = Close(sockets, wsRef)
              /\ UNCHANGED <<wsRef, timers, timerRef>>
         [] sHook = "controlPanel" ->
              \* if (socketRef.current) { close(); socketRef.current = null }
              \* if (reconnectTimeoutRef.current) clearTimeout(...)
              /\ sockets' = Close(sockets, wsRef)
              /\ wsRef' = 0
              /\ timers' = Clear(timers, timerRef)
              /\ UNCHANGED <<timerRef, active>>
    /\ UNCHANGED <<sHook, createdAfter>>

(***************************************************************************)
(* The experiment store and the stream handler of ControlPanel.  The        *)
(* effect that creates the handler depends on data.length, so the handler   *)
(* that receives a message closes over the data of the store as it is then. *)
(* The handler estimates every 500 points once there are more than 1000,    *)
(* over the last 1000; the model runs it with small numbers.  The exponent  *)
(* is in units of 0.001, as in the classifier.                              *)
(***************************************************************************)
MaxExperiment == 5
EstimateEvery == 2
EstimateAfter == 2
RecentWindow == 2

PanelSamples == {<<0, 0, 0>>, <<1, 0, 0>>, <<2, 1, 0>>, <<4, 1, 5>>}

\* p.ch1 * p.ch1 + p.ch2 * p.ch2 + (p.ch3 ? p.ch3 * p.ch3 : 0)
SquareSum(p) == p.ch1 * p.ch1 + p.ch2 * p.ch2 + (IF p.ch3 # 0 THEN p.ch3 * p.ch3 ELSE 0)

\* the exponent and the state the handler stores for the variance
\* total / n: below 0.5, below 2, below 10, otherwise
VarianceEstimate(total, n) ==
    IF 2 * total < n THEN [lambda |-> -100, state |-> "stable"]
    ELSE IF total < 2 * n THEN [lambda |-> 20, state |-> "periodic"]
    ELSE IF total < 10 * n THEN [lambda |-> 150, state |-> "quasi-periodic"]
    ELSE [lambda |-> 400, state |-> "chaotic"]

ExpInit ==
    /\ expData = <<>>
    /\ expCurrentIndex = -1
    /\ lyapunovExponent = NullValue
    /\ behaviorState = "unknown"
    /\ expOp = "create"

ExpIdle ==
    /\ expData = <<>>
    /\ expCurrentIndex = -1
    /\ lyapunovExponent = NullValue
    /\ behaviorState = "unknown"
    /\ expOp = "idle"

\* ws.onmessage of ControlPanel: addDataPoints, then the periodic estimate on
\* the closure's data; timestamps are left out
ControlPanelOnMessage ==
    \E samples \in SeqsOf(PanelSamples, 0, MaxDashBatch) :
        /\ Len(expData) + Len(samples) <= MaxExperiment
        /\ LET newPoints == [q \in 1..Len(samples) |->
                                [index |-> Len(expData) + q - 1,
                                 ch1 |-> OrZero(samples[q][1]),
                                 ch2 |-> OrZero(samples[q][2]),
                                 ch3 |-> samples[q][3]]]
           IN  /\ expData' = expData \o newPoints
               /\ expCurrentIndex' = Len(expData) + Len(newPoints) - 1
        /\ IF Len(expData) % EstimateEvery = 0 /\ Len(expData) > EstimateAfter
           THEN LET recent == Slice(expData, -RecentWindow, Len(expData))
                    total == Sum([q \in 1..Len(recent) |-> SquareSum(recent[q])])
                    estimate == VarianceEstimate(total, Len(recent))
                IN  /\ behaviorState' = estimate.state
                    /\ lyapunovExponent' = Number(estimate.lambda)
                    /\ expOp' = "estimate"
           ELSE /\ UNCHANGED <<lyapunovExponent, behaviorState>>
                /\ expOp' = "message"

\* reset of the experiment store
ExperimentReset ==
    /\ expData' = <<>>
    /\ expCurrentIndex' = -1
    /\ lyapunovExponent' = NullValue
    /\ behaviorState' = "unknown"
    /\ expOp' = "reset"

(***************************************************************************)
(* The Lyapunov history of MetricsCards.  Samples are those of the          *)
(* estimator's section, channel values in units of 1e-10.  An entry of the  *)
(* history is the estimate rounded to units of 0.01, the unit of the        *)
(* regime-change detector; Math.log is a table rounded to the same unit.    *)
(***************************************************************************)
\* useSharedXYZData({ wsUrl: WS_URL, bufferSize: 1000 })
LiveBufferSize == 1000
\* data.slice(i - 100, i)
HistoryWindow == 100

\* a variant of the loop increment: windows advancing by 25
HistoryStepQuarter(i) == i + 25
\* i += 50
HistoryStep(i) == i + 50

\* 100 * Math.log(arg * 1e-10), rounded
Log100(arg) ==
    CASE arg = 2 -> -2233
      [] arg = 3 -> -2193
      [] arg = 4 -> -2164
      [] arg = 5 -> -2142
      [] arg = 6 -> -2123
      [] arg = 7 -> -2108

\* sum / count of a non-null estimate, in units of 0.01
EstimateValue(l) ==
    LET total == Sum([q \in 1..l.count |-> Log100(l.logArgs[q])])
    IN  (2 * total + l.count) \div (2 * l.count)

\* the values of i the loop visits: for (let i = 100; i <= data.length; ...)
RECURSIVE WindowEnds(_, _)
WindowEnds(i, len) == IF i > len THEN <<>> ELSE <<i>> \o WindowEnds(HistoryStep(i), len)

\* the useMemo that builds lyapunovHistory
LyapunovHistory(samples) ==
    IF Len(samples) < HistoryWindow THEN <<>>
    ELSE LET ends == WindowEnds(HistoryWindow, Len(samples))
             lyap == [q \in 1..Len(ends) |->
                        calculateLyapunovExponent(
                            SubSeq(samples, ends[q] - HistoryWindow + 1, ends[q]), "x")]
             kept == SelectSeq(lyap, LAMBDA l : ~l.null)
         IN  [q \in 1..Len(kept) |-> EstimateValue(kept[q])]

\* stretches of the stream: steps of 3, steps of 2, a constant
MetricsPatterns == { <<[x |-> 0], [x |-> 3]>>, <<[x |-> 1], [x |-> 3]>>, <<[x |-> 1]>> }
\* the length of the first stretch and of the whole buffer
MetricsLengths ==
    {0, HistoryWindow - 1, HistoryWindow, HistoryWindow + 49, HistoryWindow + 50,
     LiveBufferSize - 250, LiveBufferSize - 1, LiveBufferSize}

MetricsInit ==
    /\ \E first \in MetricsPatterns : \E second \in MetricsPatterns :
       \E n1 \in MetricsLengths : \E n \in MetricsLengths :
          /\ n1 <= n
          /\ mData = Repeat(first, n1) \o Repeat(second, n - n1)
    /\ mPc = "input"
    /\ lyapunovHistory = <<>>
    /\ mRegimeChange = FALSE

MetricsIdle ==
    /\ mData = <<>>
    /\ mPc = "idle"
    /\ lyapunovHistory = <<>>
    /\ mRegimeChange = FALSE

\* a render of MetricsCards on the live buffer
RenderMetricsCards ==
    /\ mPc = "input"
    /\ lyapunovHistory' = LyapunovHistory(mData)
    /\ mRegimeChange' = detectRegimeChange(LyapunovHistory(mData))
    /\ mPc' = "done"
    /\ UNCHANGED mData

----
IdleExcept(k) ==
    /\ (k # "interp" => InterpIdle)
    /\ (k # "poincare" => PoincareIdle)
    /\ (k # "bif" => BifIdle)
    /\ (k # "lyap" => LyapIdle)
    /\ (k # "class" => ClassIdle)
    /\ (k # "regime" => RegimeIdle)
    /\ (k # "store" => StoreIdle)
    /\ (k # "dash" => DashIdle)
    /\ (k # "hist" => HistIdle)
    /\ (k # "loader" => LoaderIdle)
    /\ (k # "anomaly" => AnomalyIdle)
    /\ (k # "growth" => GrowthIdle)
    /\ (k # "binary" => BinaryIdle)
    /\ (k # "stream" => StreamIdle)
    /\ (k # "exp" => ExpIdle)
    /\ (k # "metrics" => MetricsIdle)

InitInterp == InterpInit /\ IdleExcept("interp")

NextInterp ==
    Interpolate /\ UNCHANGED <<poincareVars, bifVars, lyapVars, classVars, regimeVars, storeVars, dashVars, histVars, loaderVars, lateVars>>

SpecInterp == InitInterp /\ [][NextInterp]_vars

InitPoincare == PoincareInit /\ IdleExcept("poincare")

poincareFrame == <<interpVars, bifVars, lyapVars, classVars, regimeVars, storeVars, dashVars, histVars, loaderVars, lateVars>>

NextPoincare ==
    \/ PoincareEnter /\ UNCHANGED poincareFrame
    \/ PoincareIterate /\ UNCHANGED poincareFrame
    \/ PoincareReturn /\ UNCHANGED poincareFrame

SpecPoincare == InitPoincare /\ [][NextPoincare]_vars

InitBifurcation == BifInit /\ IdleExcept("bif")

bifFrame == <<interpVars, poincareVars, lyapVars, classVars, regimeVars, storeVars, dashVars, histVars, loaderVars, lateVars>>

NextBifurcation ==
    \/ BifurcationData /\ UNCHANGED bifFrame
    \/ BifurcationFromData /\ UNCHANGED bifFrame

SpecBifurcation == InitBifurcation /\ [][NextBifurcation]_vars

InitLyapunov == LyapInit /\ IdleExcept("lyap")

NextLyapunov ==
    CalculateLyapunov /\ UNCHANGED <<interpVars, poincareVars, bifVars, classVars, regimeVars, storeVars, dashVars, histVars, loaderVars, lateVars>>

SpecLyapunov == InitLyapunov /\ [][NextLyapunov]_vars

InitClassify == ClassInit /\ IdleExcept("class")

NextClassify ==
    Classify /\ UNCHANGED <<interpVars, poincareVars, bifVars, lyapVars, regimeVars, storeVars, dashVars, histVars, loaderVars, lateVars>>

SpecClassify == InitClassify /\ [][NextClassify]_vars

InitRegime == RegimeInit /\ IdleExcept("regime")

NextRegime ==
    DetectRegimeChange /\ UNCHANGED <<interpVars, poincareVars, bifVars, lyapVars, classVars, storeVars, dashVars, histVars, loaderVars, lateVars>>

SpecRegime == InitRegime /\ [][NextRegime]_vars

InitStore == StoreInit /\ IdleExcept("store")

storeFrame == <<interpVars, poincareVars, bifVars, lyapVars, classVars, regimeVars,
               dashVars, histVars, loaderVars, lateVars>>

NextStore ==
    \/ OnMessage /\ UNCHANGED storeFrame
    \/ OnMessageIgnored /\ UNCHANGED storeFrame
    \/ StartRecording /\ UNCHANGED storeFrame
    \/ StopRecording /\ UNCHANGED storeFrame
    \/ SaveRecording /\ UNCHANGED storeFrame
    \/ LoadRecording /\ UNCHANGED storeFrame
    \/ PlaybackTick /\ UNCHANGED storeFrame
    \/ HandlePlayPause /\ UNCHANGED storeFrame
    \/ HandleSeek /\ UNCHANGED storeFrame
    \/ HandleSkipBack /\ UNCHANGED storeFrame
    \/ HandleSkipForward /\ UNCHANGED storeFrame

SpecStore == InitStore /\ [][NextStore]_vars

InitDashboard == DashInit /\ IdleExcept("dash")

dashFrame == <<interpVars, poincareVars, bifVars, lyapVars, classVars, regimeVars,
              storeVars, histVars, loaderVars, lateVars>>

NextDashboard ==
    \/ DashOnMessage /\ UNCHANGED dashFrame
    \/ DashHandleReset /\ UNCHANGED dashFrame
    \/ HandleScrub /\ UNCHANGED dashFrame
    \/ DashTogglePlay /\ UNCHANGED dashFrame
    \/ ToggleNormalize /\ UNCHANGED dashFrame
    \/ PlayheadStep /\ UNCHANGED dashFrame

SpecDashboard == InitDashboard /\ [][NextDashboard]_vars

InitHistory == AppInit /\ IdleExcept("hist")

histFrame == <<interpVars, poincareVars, bifVars, lyapVars, classVars, regimeVars,
              storeVars, dashVars, loaderVars, lateVars>>

NextHistory ==
    \/ AppOnMessage /\ UNCHANGED histFrame
    \/ AppHandleReset /\ UNCHANGED histFrame

SpecHistory == InitHistory /\ [][NextHistory]_vars

InitLoaders == LoaderInit /\ IdleExcept("loader")

loaderFrame == <<interpVars, poincareVars, bifVars, lyapVars, classVars, regimeVars,
                storeVars, dashVars, histVars, lateVars>>

NextLoaders ==
    \/ LoadPlayground /\ UNCHANGED loaderFrame
    \/ LoadExport /\ UNCHANGED loaderFrame
    \/ LoadDeleteView /\ UNCHANGED loaderFrame

SpecLoaders == InitLoaders /\ [][NextLoaders]_vars

InitAnomaly == AnomalyInit /\ IdleExcept("anomaly")

NextAnomaly ==
    CalculateAnomalyScore /\ UNCHANGED <<earlyVars, growthVars, binaryVars, streamVars, expVars, metricsVars>>

SpecAnomaly == InitAnomaly /\ [][NextAnomaly]_vars

InitGrowth == GrowthInit /\ IdleExcept("growth")

NextGrowth ==
    CalculateLyapunovDoubling /\ UNCHANGED <<earlyVars, anomalyVars, binaryVars, streamVars, expVars, metricsVars>>

SpecGrowth == InitGrowth /\ [][NextGrowth]_vars

InitBinary == BinaryInit /\ IdleExcept("binary")

NextBinary ==
    BinaryOnMessage /\ UNCHANGED <<earlyVars, anomalyVars, growthVars, streamVars, expVars, metricsVars>>

SpecBinary == InitBinary /\ [][NextBinary]_vars

InitStream == StreamInit /\ IdleExcept("stream")

streamFrame == <<earlyVars, anomalyVars, growthVars, binaryVars, expVars, metricsVars>>

NextStream ==
    \/ SocketOpens /\ UNCHANGED streamFrame
    \/ SocketFails /\ UNCHANGED streamFrame
    \/ SocketOnClose /\ UNCHANGED streamFrame
    \/ TimerFires /\ UNCHANGED streamFrame
    \/ Teardown /\ UNCHANGED streamFrame

SpecStream == InitStream /\ [][NextStream]_vars

InitExperiment == ExpInit /\ IdleExcept("exp")

expFrame == <<earlyVars, anomalyVars, growthVars, binaryVars, streamVars, metricsVars>>

NextExperiment ==
    \/ ControlPanelOnMessage /\ UNCHANGED expFrame
    \/ ExperimentReset /\ UNCHANGED expFrame

SpecExperiment == InitExperiment /\ [][NextExperiment]_vars

InitMetrics == MetricsInit /\ IdleExcept("metrics")

NextMetrics ==
    RenderMetricsCards
        /\ UNCHANGED <<earlyVars, anomalyVars, growthVars, binaryVars, streamVars, expVars>>

SpecMetrics == InitMetrics /\ [][NextMetrics]_vars

(***************************************************************************)
(* Claims about the trajectory resampler (SpecInterp).                      *)
(***************************************************************************)

\* C1: for every input length n (0 and 1 included), every method and every
\* segmentsPerEdge >= 1, the dense point list and the indexMap have the same
\* length and every indexMap entry is an index in [0, n-1].
C1_IndexMapValid ==
    interpPc = "done" =>
        /\ Len(interpOut.points) = Len(interpOut.indexMap)
        /\ \A q \in 1..Len(interpOut.indexMap) :
              interpOut.indexMap[q] \in 0..(Len(pts) - 1)

C1_Witness ==
    /\ interpPc = "done"
    /\ method = "catmullRom"
    /\ Len(pts) = 3
    /\ segmentsPerEdge = 2
    /\ Len(interpOut.indexMap) = 5

C3_LastValueIsPrevious ==
    (pPc = "loop" /\ pI < Len(pData) /\ pI >= pOpts.transient) =>
        lastValue = SectionAt(pData, pOpts.section, pI - 1)

\* the crossings of the section channel, as the claim states them
C4_Expected ==
    LET v(i) == GetOr0(pData[i + 1], pOpts.section)
        sv == pOpts.sectionValue
    IN  { i \in 1..(Len(pData) - 1) :
            /\ \/ (v(i - 1) < sv /\ v(i) >= sv)
               \/ (v(i - 1) > sv /\ v(i) <= sv)
            /\ \/ pOpts.crossingDirection = "both"
               \/ (pOpts.crossingDirection = "positive" /\ v(i) >= sv)
               \/ (pOpts.crossingDirection = "negative" /\ v(i) < sv) }

\* C4: with transient <= 1 the output is exactly, in increasing index order,
\* the samples at the crossing indices kept by the direction filter; each
\* record carries index i and the x, y, z of sample i (missing read as 0);
\* fewer than 2 samples or no crossing gives the empty output.
C4_OutputIsCrossings ==
    (pPc = "done" /\ pOpts.transient <= 1) =>
        /\ Len(pPoints) = Cardinality(C4_Expected)
        /\ {pPoints[q].index : q \in 1..Len(pPoints)} = C4_Expected
        /\ \A q \in 1..(Len(pPoints) - 1) : pPoints[q].index < pPoints[q + 1].index
        /\ \A q \in 1..Len(pPoints) :
              LET d == pData[pPoints[q].index + 1]
              IN  /\ pPoints[q].x = (IF "x" \in DOMAIN d THEN d.x ELSE 0)
                  /\ pPoints[q].y = (IF "y" \in DOMAIN d THEN d.y ELSE 0)
                  /\ pPoints[q].z = (IF "z" \in DOMAIN d THEN d.z ELSE 0)
        /\ (Len(pData) < 2 => pPoints = <<>>)

C4_Witness ==
    /\ pPc = "done"
    /\ pOpts.transient = 1
    /\ pOpts.crossingDirection = "positive"
    /\ pOpts.section = "z"
    /\ Len(pData) = 4
    /\ Len(pPoints) = 2

(***************************************************************************)
(* Claims about the bifurcation binners (SpecBifurcation).                  *)
(***************************************************************************)

\* the parameters and observables binned by computeBifurcationData
PgParams == [i \in 1..Len(bData) |-> GetOrFalsy0(bData[i], "x")]
PgObs == [i \in 1..Len(bData) |-> GetOrFalsy0(bData[i], "y")]
\* the parameters and observables binned by computeBifurcationFromData
ExKept == Max2(0, Len(bData) - bOpts.transient)
ExParams == [i \in 1..ExKept |-> GetOr0(bData[i + bOpts.transient], bOpts.parameterKey)]
ExObs == [i \in 1..ExKept |-> GetOr0(bData[i + bOpts.transient], bOpts.observableKey)]

NonDegenerate(params) == Len(params) > 0 /\ SeqMin(params) # SeqMax(params)

\* lo <= num/den <= hi
RatWithin(r, lo, hi) == r.den * lo <= r.num /\ r.num <= r.den * hi

\* the bin of [minParam, maxParam] that holds p: half-open bins, the last
\* one closed
BinOf(p, params, n) ==
    Min2(n - 1, ((p - SeqMin(params)) * n) \div (SeqMax(params) - SeqMin(params)))

CenterOf(b, params, n) ==
    BinCenter(SeqMin(params), SeqMax(params) - SeqMin(params), n, b)

\* C5 (playground binner): every bin center lies in [minParam, maxParam]
C5_PlaygroundCentersInRange ==
    (bPc.playground = "done" /\ NonDegenerate(PgParams)) =>
        \A q \in 1..Len(bifurcationPoints) :
            RatWithin(bifurcationPoints[q].x, SeqMin(PgParams), SeqMax(PgParams))

\* C5 (export binner): every bin center lies in [minParam, maxParam]
C5_ExportCentersInRange ==
    (bPc.export = "done" /\ NonDegenerate(ExParams)) =>
        \A q \in 1..Len(bFromData) :
            RatWithin(bFromData[q].param, SeqMin(ExParams), SeqMax(ExParams))

\* C5: for every input whose parameters are not all equal, every point
\* returned by either binner has its horizontal coordinate (the bin center)
\* within [minParam, maxParam] of the binned samples.
C5_CentersInRange == C5_PlaygroundCentersInRange /\ C5_ExportCentersInRange

\* C6 (playground binner): every sample's rounded observable is output at
\* the center of the bin that holds its parameter
C6_PlaygroundNoSampleDropped ==
    (bPc.playground = "done" /\ Len(bData) >= MinBifSamples /\ NonDegenerate(PgParams)) =>
        \A i \in 1..Len(bData) :
            \E q \in 1..Len(bifurcationPoints) :
                /\ bifurcationPoints[q].y = RoundTo(PgObs[i], 100)
                /\ bifurcationPoints[q].x = CenterOf(BinOf(PgParams[i], PgParams, bins), PgParams, bins)

\* C6 (export binner)
C6_ExportNoSampleDropped ==
    (bPc.export = "done" /\ Len(bData) >= MinBifSamples /\ NonDegenerate(ExParams)) =>
        \A i \in 1..ExKept :
            \E q \in 1..Len(bFromData) :
                /\ bFromData[q].value = RoundTo(ExObs[i], 10)
                /\ bFromData[q].param =
                      CenterOf(BinOf(ExParams[i], ExParams, bOpts.numBins), ExParams, bOpts.numBins)

\* C6: for every input of at least 50 samples whose parameters are not all
\* equal, every binned sample, the samples at maxParam included, contributes
\* its rounded observable to the output at one of the numBins bins
\* partitioning [minParam, maxParam] (half-open bins, the last one closed):
\* no sample is dropped at the upper boundary.
C6_NoSampleDropped == C6_PlaygroundNoSampleDropped /\ C6_ExportNoSampleDropped

(***************************************************************************)
(* Claims about the Lyapunov estimator (SpecLyapunov), the classifier       *)
(* (SpecClassify) and the regime-change detector (SpecRegime).              *)
(***************************************************************************)

\* the channel value at code index i, a missing channel read as 0
C7_Value(i) == IF lChannel \in DOMAIN lData[i + 1] THEN lData[i + 1][lChannel] ELSE 0

\* C7: the result is null exactly when the input has fewer than 100 samples
\* or no index i in [10, length-10) has |value[i+1] - value[i]| > 1e-10;
\* otherwise it is a number; no index outside the sequence is read.
C7_NullExactly ==
    lPc = "done" =>
        /\ lyapunov.null <=>
              \/ Len(lData) < 100
              \/ ~ \E i \in 10..(Len(lData) - 11) : Abs(C7_Value(i + 1) - C7_Value(i)) > 1
        /\ (~lyapunov.null => lyapunov.count > 0)
        /\ lReads \subseteq 0..(Len(lData) - 1)

C7_Witness ==
    /\ lPc = "done"
    /\ Len(lData) = 100
    /\ ~lyapunov.null
    /\ lyapunov.count = 1
    /\ 90 \in lReads

\* C8: null maps to Unknown with confidence 0; a number L maps to
\* Stable / Fixed Point (0.9) if L < -0.05, Stable (0.7) if -0.05 <= L < -0.01,
\* Periodic / Limit Cycle (0.8) if -0.01 <= L < 0.01, Quasi-Periodic (0.7) if
\* 0.01 <= L < 0.1, Chaotic (0.85) if L >= 0.1; the confidence is in [0, 1].
C8_Thresholds ==
    cPc = "done" =>
        LET L == cInput.value
            c == classification
        IN  /\ cInput.null => (c.state = "Unknown" /\ c.confidence = 0)
            /\ (~cInput.null /\ L < -50) =>
                  (c.state = "Stable / Fixed Point" /\ c.confidence = 90)
            /\ (~cInput.null /\ -50 <= L /\ L < -10) =>
                  (c.state = "Stable" /\ c.confidence = 70)
            /\ (~cInput.null /\ -10 <= L /\ L < 10) =>
                  (c.state = "Periodic / Limit Cycle" /\ c.confidence = 80)
            /\ (~cInput.null /\ 10 <= L /\ L < 100) =>
                  (c.state = "Quasi-Periodic" /\ c.confidence = 70)
            /\ (~cInput.null /\ L >= 100) =>
                  (c.state = "Chaotic" /\ c.confidence = 85)
            /\ c.confidence >= 0 /\ c.confidence <= 100

C8_Witness ==
    /\ cPc = "done"
    /\ ~cInput.null
    /\ cInput.value = -50
    /\ classification.state = "Stable"

\* C9: the result is false for fewer than 20 entries; otherwise it is true
\* exactly when |mean(last 10) - mean(the 10 before them)| > 0.1, whatever
\* the entries older than the last 20.
C9_LastTwenty ==
    rPc = "done" =>
        LET n == Len(history)
            sumOf(lo, hi) == Sum([q \in 1..(hi - lo + 1) |-> history[lo + q - 1]])
        IN  IF n < 20 THEN regimeChange = FALSE
            ELSE regimeChange <=>
                    Abs(sumOf(n - 9, n) - sumOf(n - 19, n - 10)) > 100

C9_Witness ==
    /\ rPc = "done"
    /\ Len(history) = 22
    /\ regimeChange
    /\ history[1] = 11
    /\ history[3] = -10

(***************************************************************************)
(* Claims about the playground store (SpecStore).                           *)
(***************************************************************************)

\* the most recent min(N, bufferSize) of the N live samples received, in
\* arrival order
C10_RecentLive ==
    LET kept == Min2(received, bufferSize)
    IN  [q \in 1..kept |-> received - kept + q]

\* C10: whenever a batch has just been processed with no recording selected,
\* the buffer holds at most bufferSize samples and equals the most recent
\* min(N, bufferSize) of the N live samples received so far, in arrival
\* order.
C10_BufferIsRecentLive ==
    (lastOp = "message" /\ selectedRecording = NoSelection) =>
        /\ Len(data) <= bufferSize
        /\ data = C10_RecentLive

\* the part of C10 that bounds the buffer
C10_BufferBounded ==
    (lastOp = "message" /\ selectedRecording = NoSelection) => Len(data) <= bufferSize

(***************************************************************************)
(* Claims about the accumulators of streamed points (SpecHistory,           *)
(* SpecDashboard).                                                          *)
(***************************************************************************)

\* the point at position k (0-based) of the history h carries index k
IndexIsPosition(h) == \A q \in 1..Len(h) : h[q].index = q - 1

\* the three accumulators, one by one
C11_StoreRefIndexed == IndexIsPosition(storeRef)
C11_AllDataIndexed == IndexIsPosition(allData)
C11_ExperimentIndexed == IndexIsPosition(expData)

\* C11: in every dashboard that accumulates streamed points (storeRef of the
\* components dashboard, allData of the app dashboard, the experiment store
\* fed by ControlPanel), after any sequence of received batches the point at
\* position k of the history carries index k: indices are unique, contiguous
\* and equal to the position.
C11_IndexIsPosition ==
    /\ C11_StoreRefIndexed
    /\ C11_AllDataIndexed
    /\ C11_ExperimentIndexed

(***************************************************************************)
(* Claims about SensorDashboard of components/visualization                 *)
(* (SpecDashboard).                                                         *)
(***************************************************************************)

\* per-channel extrema of the samples of a sequence, computed from the set
\* of its values
ExtremaOf(samples) ==
    LET vals(i) == {samples[q][i] : q \in 1..Len(samples)}
        least(i) == CHOOSE m \in vals(i) : \A v \in vals(i) : m <= v
        greatest(i) == CHOOSE m \in vals(i) : \A v \in vals(i) : m >= v
    IN  IF samples = <<>> THEN SentinelExtrema
        ELSE [min |-> [i \in 1..3 |-> Finite(least(i))],
              max |-> [i \in 1..3 |-> Finite(greatest(i))]]

\* the state right after handleReset
C12_Cleared ==
    /\ storeRef = <<>>
    /\ extremaRef = SentinelExtrema
    /\ visibleData = <<>>
    /\ currentIndex = -1
    /\ totalCount = 0
    /\ ~dashIsPlaying

\* indices, extrema and the window shown by a batch, as functions of the
\* samples received since the last reset alone
C12_FromReceived ==
    /\ storeRef = [q \in 1..Len(dashReceived) |->
                     [index |-> q - 1, ch1 |-> dashReceived[q][1],
                      ch2 |-> dashReceived[q][2], ch3 |-> dashReceived[q][3]]]
    /\ extremaRef = ExtremaOf(dashReceived)
    /\ dashOp \in {"batch", "emptyBatch"} =>
          /\ totalCount = Len(dashReceived)
          /\ currentIndex = Len(dashReceived) - 1
          /\ \A q \in 1..Len(visibleData) :
                LET pos == Len(dashReceived) - Len(visibleData) + q
                    e == ExtremaOf(dashReceived)
                    val(i) ==
                        IF e.max[i].v > e.min[i].v
                        THEN Rat(FACTOR * (dashReceived[pos][i] - e.min[i].v),
                                 e.max[i].v - e.min[i].v)
                        ELSE Rat(FACTOR, 2)
                IN  visibleData[q] = [index |-> pos - 1, ch1 |-> val(1),
                                      ch2 |-> val(2), ch3 |-> val(3)]
          /\ Len(visibleData) = Min2(WINDOW_SIZE, Len(dashReceived))

\* C12: after handleReset the stored history is empty, the extrema are back
\* at their sentinels, the visible window is empty, currentIndex is -1,
\* totalCount is 0 and playback is stopped; every index, extremum and visible
\* value produced by batches processed afterwards depends only on the
\* samples received after the reset.
C12_ResetStartsAfresh ==
    /\ dashOp = "reset" => C12_Cleared
    /\ C12_FromReceived

\* a batch processed after a reset, the store filled anew
C12_Witness ==
    /\ dashWasReset
    /\ dashOp = "batch"
    /\ Len(storeRef) = MaxStore
    /\ storeRef[1].ch1 = 2
    /\ visibleData # <<>>

\* channel i of a point
Channel(p, i) == IF i = 1 THEN p.ch1 ELSE IF i = 2 THEN p.ch2 ELSE p.ch3

\* the stored point shown at position q of the visible window
C13_Shown(q) == storeRef[currentIndex + 1 - Len(visibleData) + q]

\* C13: with normalization enabled, after any sequence of batches, scrubs
\* and resets, every channel value of the visible window equals
\* FACTOR*(v - min[i])/(max[i] - min[i]) over the running extrema and lies in
\* [0, FACTOR]; when the observed range of the channel is zero it is
\* FACTOR*0.5.
C13_WindowNormalized ==
    normalize =>
        \A q \in 1..Len(visibleData) : \A i \in 1..3 :
            LET lo == extremaRef.min[i].v
                hi == extremaRef.max[i].v
                v == Channel(C13_Shown(q), i)
                shown == Channel(visibleData[q], i)
            IN  /\ extremaRef.min[i].fin /\ extremaRef.max[i].fin
                /\ shown.den > 0
                /\ hi > lo => shown.num * (hi - lo) = FACTOR * (v - lo) * shown.den
                /\ hi = lo => 2 * shown.num = FACTOR * shown.den
                /\ 0 <= shown.num /\ shown.num <= FACTOR * shown.den

\* after a reset, a scrub shows a point half way up channel 1 while
\* channel 3 has range zero
C13_Witness ==
    /\ normalize
    /\ dashWasReset
    /\ dashOp = "scrub"
    /\ \E q \in 1..Len(visibleData) :
          /\ visibleData[q].ch1 = Rat(2, 4)
          /\ visibleData[q].ch3 = Rat(FACTOR, 2)

\* C14: a stream message that is unparseable, whose samples field is missing
\* or not an array, or that carries zero samples is swallowed by the stream
\* handler: no exception escapes it, and the stored history and the extrema
\* are left as they were.
C14_MalformedSwallowed ==
    dashOp \in Malformed \cup {"emptyBatch"} =>
        /\ dashThrown = "none"
        /\ dashBefore = <<storeRef, extremaRef>>

\* the part of C14 that the dashboard's handler keeps: the store and the
\* extrema are not changed by such a message
C14_StateKept ==
    dashOp \in Malformed \cup {"emptyBatch"} => dashBefore = <<storeRef, extremaRef>>

(***************************************************************************)
(* Claims about the persisted recordings (SpecLoaders, SpecStore).          *)
(***************************************************************************)

\* the part of C15 about an absent or unparseable entry
C15_CorruptionGivesEmpty ==
    \A w \in Loaders :
        (loads[w].ran /\ entry.kind \in {"absent", "empty", "garbage"}) =>
            /\ ~loads[w].raised
            /\ loads[w].result = ArrayResult(<<>>)

\* C15: every recordings loader returns the empty list, without raising,
\* when the nld_recordings entry is absent or cannot be parsed; a parse
\* failure never propagates to the caller, and the result of loading is
\* always a list.
C15_LoaderGivesList ==
    /\ C15_CorruptionGivesEmpty
    /\ \A w \in Loaders : loads[w].ran => (~loads[w].raised /\ loads[w].result.isArray)

C17_Delivered(from, to) == [q \in 1..(to - from) |-> from + q]

\* C17: when a capture is stopped, recordedData is exactly the
\* concatenation, in arrival order, of all samples of the batches delivered
\* while isRecording was true since the most recent startRecording: it is
\* never truncated to bufferSize and contains no sample delivered before the
\* start or after the stop.
C17_RecordedIsCapture ==
    capture.stopped => recordedData = C17_Delivered(capture.from, capture.to)

\* the part of C17 that holds: what is left of a stopped capture is its
\* tail, untruncated, without samples from before the start or after the stop
C17_RecordedIsTail ==
    capture.stopped =>
        \E k \in capture.from..capture.to : recordedData = C17_Delivered(k, capture.to)

(***************************************************************************)
(* Claims about the bifurcation binners on short and on degenerate inputs   *)
(* (SpecBifurcation).                                                       *)
(***************************************************************************)

\* C18 (playground binner): nothing is returned for fewer than 50 samples
C18_PlaygroundShortIsEmpty ==
    (bPc.playground = "done" /\ Len(bData) < MinBifSamples) => bifurcationPoints = <<>>

\* C18 (export binner): nothing is returned for fewer than 50 samples
C18_ExportShortIsEmpty ==
    (bPc.export = "done" /\ Len(bData) < MinBifSamples) => bFromData = <<>>

\* C18: both bifurcation binners return an empty sequence for every input
\* of fewer than 50 samples, for any transient and numBins.
C18_ShortIsEmpty == C18_PlaygroundShortIsEmpty /\ C18_ExportShortIsEmpty

\* all parameters equal
Degenerate(params) == Len(params) > 0 /\ SeqMin(params) = SeqMax(params)

\* C19 (playground binner): one point per sample, at the common parameter
C19_PlaygroundPassthrough ==
    (bPc.playground = "done" /\ Len(bData) >= MinBifSamples /\ Degenerate(PgParams)) =>
        /\ Len(bifurcationPoints) = Len(bData)
        /\ \A q \in 1..Len(bifurcationPoints) :
              /\ DOMAIN bifurcationPoints[q] = {"x", "y"}
              /\ bifurcationPoints[q].x.num = PgParams[q] * bifurcationPoints[q].x.den
              /\ bifurcationPoints[q].y = PgObs[q]

\* C19 (export binner): one point per kept sample, at the common parameter,
\* as { param, value }
C19_ExportPassthrough ==
    (bPc.export = "done" /\ Len(bData) >= MinBifSamples /\ Degenerate(ExParams)) =>
        /\ Len(bFromData) = ExKept
        /\ \A q \in 1..Len(bFromData) :
              /\ DOMAIN bFromData[q] = {"param", "value"}
              /\ bFromData[q].param = ExParams[q]
              /\ bFromData[q].value = ExObs[q]

\* C19: when all parameter values of the binned samples are equal and the
\* input is long enough to be binned, each binner returns one output point
\* per input sample, whose horizontal coordinate is the common parameter
\* value and whose vertical coordinate is that sample's observable, in the
\* same record shape as its non-degenerate output.
C19_DegeneratePassthrough == C19_PlaygroundPassthrough /\ C19_ExportPassthrough

\* what the export binner does return then: one { param, observable } per
\* kept sample
C19_ExportReturnsValues ==
    (bPc.export = "done" /\ Degenerate(ExParams)) =>
        bFromData = [q \in 1..ExKept |-> [param |-> ExParams[q], observable |-> ExObs[q]]]

\* what the playground binner does return then: nothing
C19_PlaygroundReturnsNothing ==
    (bPc.playground = "done" /\ Degenerate(PgParams)) => bifurcationPoints = <<>>

(***************************************************************************)
(* Claim about the direction of the Poincare crossings (SpecPoincare).      *)
(***************************************************************************)

\* crossingPositive of the crossing recorded as point q of the output
C20_Positive(q) ==
    SectionAt(pData, pOpts.section, pPoints[q].index) >= pOpts.sectionValue

\* consecutive crossings of the output differ in direction
C20_Alternate == \A q \in 1..(Len(pPoints) - 1) : C20_Positive(q) # C20_Positive(q + 1)

\* C20: with direction both and transient 0, for any trajectory the
\* crossings emitted by computePoincareFromData alternate in direction: a
\* crossing with v[i] >= sectionValue is always followed (if any crossing
\* follows) by one with v[i] < sectionValue and vice versa.
C20_CrossingsAlternate ==
    (pPc = "done" /\ pOpts.crossingDirection = "both" /\ pOpts.transient = 0)
        => C20_Alternate

\* the same for trajectories none of whose samples lies on the section
C20_AlternateOffSection ==
    (/\ pPc = "done" /\ pOpts.crossingDirection = "both" /\ pOpts.transient = 0
     /\ \A i \in 0..(Len(pData) - 1) :
            SectionAt(pData, pOpts.section, i) # pOpts.sectionValue)
        => C20_Alternate

(***************************************************************************)
(* Claims about the anomaly score (SpecAnomaly).                            *)
(***************************************************************************)

\* the arithmetic mean of channel x, missing values read as 0, over the last
\* 50 samples, or over all of them when there are fewer
ArithmeticMean(samples) ==
    LET window == Slice(samples, -50, Len(samples))
    IN  Rat(Sum([q \in 1..Len(window) |-> GetOr0(window[q], "x")]), Len(window))

\* |currentMean - baselineMean| / d, d = |baselineMean| or 1 when that is 0
C21_Expected(current, baseline) ==
    LET cm == ArithmeticMean(current)
        bm == ArithmeticMean(baseline)
        diff == Reduce(Rat(Abs(cm.num * bm.den - bm.num * cm.den), cm.den * bm.den))
    IN  IF bm.num = 0 THEN diff ELSE Reduce(Rat(diff.num * bm.den, diff.den * Abs(bm.num)))

C21_Applies == /\ aPc = "done"
               /\ ~aBaseline.null
               /\ Len(aBaseline.samples) >= 10
               /\ Len(aCurrent) >= 10

\* C21: when baseline is non-null and both sequences have at least 10
\* samples, the score is |currentMean - baselineMean| / d, where d is
\* |baselineMean| or 1 when that is 0 and each mean is the arithmetic mean of
\* channel x (missing read as 0) over the last 50 samples, or over all the
\* samples of a sequence shorter than 50.
C21_ScoreIsMeanDeviation ==
    C21_Applies => RatEq(anomalyScore, C21_Expected(aCurrent, aBaseline.samples))

\* the part of C21 that holds: the same with both sequences of 50 samples or
\* more
C21_FullWindows ==
    C21_Applies /\ Len(aCurrent) >= 50 /\ Len(aBaseline.samples) >= 50
        => RatEq(anomalyScore, C21_Expected(aCurrent, aBaseline.samples))

\* C22: the score is 0 when baseline is null or either sequence has fewer
\* than 10 samples, 0 when current and baseline are the same sequence of at
\* least 10 samples, and never negative.
C22_ZeroCases ==
    aPc = "done" =>
        /\ (aBaseline.null \/ Len(aBaseline.samples) < 10 \/ Len(aCurrent) < 10
                => anomalyScore.num = 0)
        /\ (~aBaseline.null /\ aBaseline.samples = aCurrent /\ Len(aCurrent) >= 10
                => anomalyScore.num = 0)
        /\ anomalyScore.num >= 0 /\ anomalyScore.den > 0

\* a short current against a long baseline with another mean, and a sequence
\* of non-zero mean scored against itself
C22_Witness ==
    /\ aPc = "done"
    /\ \/ /\ Len(aCurrent) = 9 /\ ~aBaseline.null /\ Len(aBaseline.samples) >= 50
          /\ ArithmeticMean(aCurrent).num # ArithmeticMean(aBaseline.samples).num
       \/ /\ ~aBaseline.null /\ aBaseline.samples = aCurrent /\ Len(aCurrent) > 50
          /\ ArithmeticMean(aCurrent).num # 0

(***************************************************************************)
(* Claims about the estimator on a doubling sequence (SpecGrowth).          *)
(***************************************************************************)

\* the estimate is ln 2 within a factor of two: in units of ln 2,
\* 1/2 <= sumExp / count <= 2
ApproximatelyLn2(e) == ~e.null /\ e.count <= 2 * e.sumExp /\ e.sumExp <= 2 * e.count

\* C23: for a sequence of at least 100 samples in which every value is r > 1
\* times the previous one (here doubling, r = 2), calculateLyapunovExponent
\* returns approximately ln(r).
C23_EstimateIsLogRatio ==
    gPc = "done" /\ gLen >= 100 => ApproximatelyLn2(gEstimate)

\* what the estimator returns instead, when every visited delta is counted:
\* ln 2 times the mean exponent of the visited deltas, start + (len - 1) / 2
C23_EstimateIsMeanLogDelta ==
    gPc = "done" /\ gLen >= 100 /\ AboveThreshold(gStart + 10)
        => ~gEstimate.null /\ 2 * gEstimate.sumExp = gEstimate.count * (2 * gStart + gLen - 1)

(***************************************************************************)
(* Claims about the early return of the resampler (SpecInterp).             *)
(***************************************************************************)

\* C24: for method none with any input, and for any method with an input of
\* at most 1 point, interpolateTrajectory returns the input points unchanged
\* (same points, same order) and the identity indexMap, indexMap[i] = i.
C24_PassThrough ==
    interpPc = "done" /\ (method = "none" \/ Len(pts) <= 1) =>
        /\ interpOut.points = pts
        /\ Len(interpOut.indexMap) = Len(pts)
        /\ \A q \in 1..Len(pts) : interpOut.indexMap[q] = q - 1

\* method none on several points
C24_Witness ==
    /\ interpPc = "done"
    /\ method = "none"
    /\ Len(pts) >= 2
    /\ segmentsPerEdge >= 2

\* a single point under a densifying method
C24_SinglePoint ==
    interpPc = "done" /\ method # "none" /\ Len(pts) = 1 =>
        interpOut = [points |-> pts, indexMap |-> <<0>>]

(***************************************************************************)
(* Claims about the binary stream hooks (SpecBinary).                       *)
(***************************************************************************)

\* a channel value in [-25, 25]
InLorenzRange(v) == ~v.nan /\ -25 * v.den <= v.num /\ v.num <= 25 * v.den

SampleInRange(p) == InLorenzRange(p.ch1) /\ InLorenzRange(p.ch2) /\ InLorenzRange(p.ch3)

\* C25: for any payload of unsigned 16-bit words the handlers decode one
\* sample per group of 3 interleaved words, each channel raw/65535*50 - 25,
\* so that every channel of every sample appended to the buffer lies in
\* [-25, 25], whatever the payload length.
C25_DecodedInRange ==
    /\ \A q \in 1..Len(binData) : SampleInRange(binData[q])
    /\ binOp = "decoded" => 3 * binAppended <= binWords

\* the part of C25 that holds: a payload of whole groups decodes to one
\* sample per group, every channel raw/65535*50 - 25 and in [-25, 25], raw 0
\* giving -25 and raw 65535 giving 25
C25_WholeGroupsInRange ==
    \A w \in SeqsOf(RawWords, 0, MaxWords) :
        Len(w) % 3 = 0 =>
            /\ Len(Decode(w)) = Len(w) \div 3
            /\ \A q \in 1..Len(Decode(w)) :
                  /\ SampleInRange(Decode(w)[q])
                  /\ \A c \in 0..2 :
                        LET v == denormalize(WordAt(w, 3 * (q - 1) + c))
                        IN  /\ w[3 * (q - 1) + c + 1] = 0 => v.num = -25 * v.den
                            /\ w[3 * (q - 1) + c + 1] = 65535 => v.num = 25 * v.den

\* malformed frames leave the buffer alone
C25_OtherFramesIgnored ==
    [][binOp' \in {"ignored", "caught"} => binData' = binData]_vars

(***************************************************************************)
(* Claims about playback of a recording (SpecStore).                        *)
(***************************************************************************)

PlaybackOps == {"loadRecording", "tick", "playPause", "seek", "skipBack", "skipForward"}

\* C26: whenever a recording is selected, after every playback operation
\* (loading it, a playback tick, play/pause, seek, skip back, skip forward)
\* the data shown is the first playbackPosition samples of that recording,
\* and playbackPosition lies in [0, length of the recording].
C26_DataIsPlayedPrefix ==
    selectedRecording # NoSelection /\ lastOp \in PlaybackOps =>
        /\ PlaybackRecording # <<>>
        /\ playbackPosition >= 0 /\ playbackPosition <= maxPosition
        /\ data = Prefix(PlaybackRecording[1].data, playbackPosition)

\* the parts of C26 that hold: the position stays within the recording, and
\* the data shown is always some prefix of it
C26_PositionInRange ==
    selectedRecording # NoSelection =>
        /\ PlaybackRecording # <<>>
        /\ playbackPosition >= 0 /\ playbackPosition <= maxPosition

C26_DataIsSomePrefix ==
    selectedRecording # NoSelection =>
        \E n \in 0..maxPosition : data = Prefix(PlaybackRecording[1].data, n)

\* every operation that writes data writes the prefix at the new position
C26_WritesAgree ==
    [][selectedRecording' # NoSelection /\ lastOp' \in PlaybackOps /\ data' # data
          => data' = Prefix(PlaybackRecording[1].data, playbackPosition)']_vars

(***************************************************************************)
(* Claims about reconnection after teardown (SpecStream).                   *)
(***************************************************************************)

\* C27: once the effect owning a stream connection has been torn down
\* (unmount, changed dependencies, or ControlPanel disconnected by the user),
\* that effect instance never creates another WebSocket: close events and
\* reconnect timers that fire after the teardown open no new connection.
C27_NoSocketAfterTeardown == ~createdAfter

\* the part of C27 that holds: the hooks that test a flag in connect()
C27_FlaggedHooksStayClosed ==
    sHook \in {"sharedXYZ"} \cup BinaryHooks => ~createdAfter

\* in those hooks a timer does fire after the teardown
C27_TimerFiredAfterTeardown ==
    /\ sHook \in {"sharedXYZ"} \cup BinaryHooks
    /\ tornDown
    /\ \E t \in 1..Len(timers) : timers[t] = "fired"
    /\ \A i \in 1..Len(sockets) : sockets[i] = "closed"
    /\ Len(sockets) = 1

(***************************************************************************)
(* Claims about the normalize toggle of SensorDashboard (SpecDashboard).    *)
(***************************************************************************)

\* the window that a render whose normalize is norm builds at currentIndex
C28_Window(norm) ==
    IF currentIndex < 0 THEN <<>>
    ELSE updateVisibleWindow(storeRef, extremaRef, currentIndex, norm).visibleData

\* C28: whenever the normalize toggle is off the visible window holds the
\* raw stored values (the unmodified slice of the store ending at
\* currentIndex), and whenever it is on the window holds normalized values;
\* this holds after every operation, including batches received after the
\* toggle was changed.
C28_WindowFollowsToggle ==
    /\ ~normalize => visibleData = C28_Window(FALSE)
    /\ normalize => visibleData = C28_Window(TRUE)

\* the parts of C28 that hold: with the toggle on the window is the
\* normalized slice, and the handlers of the current render (the toggle's
\* effect, the scrub slider, the play head) build the window the toggle asks
\* for
C28_NormalizedWhenOn ==
    normalize => visibleData = C28_Window(TRUE)

C28_RenderHandlersFollowToggle ==
    [][dashOp' \in {"normalize", "scrub"}
          => (visibleData = C28_Window(normalize))']_vars

\* a batch received with the toggle off is shown normalized
C28_BatchIgnoresToggle ==
    [][dashOp' = "batch" => (visibleData = C28_Window(TRUE))']_vars

(***************************************************************************)
(* Claims about the exponent and the state stored by ControlPanel           *)
(* (SpecExperiment).                                                        *)
(***************************************************************************)

\* the store's name for the regime classifyDynamicalState assigns
RegimeOf(l) ==
    LET state == classifyDynamicalState(l).state
    IN  CASE state \in {"Stable / Fixed Point", "Stable"} -> "stable"
          [] state = "Periodic / Limit Cycle" -> "periodic"
          [] state = "Quasi-Periodic" -> "quasi-periodic"
          [] state = "Chaotic" -> "chaotic"
          [] OTHER -> "unknown"

\* C29: whenever ControlPanel stores a Lyapunov exponent together with a
\* behaviour state, the stored state is the regime that the classifier's
\* thresholds assign to that exponent (below -0.01 stable, below 0.01
\* periodic, below 0.1 quasi-periodic, otherwise chaotic); after the store's
\* reset the exponent is null and the state is unknown.
C29_StateMatchesExponent ==
    /\ expOp = "estimate" => ~lyapunovExponent.null /\ behaviorState = RegimeOf(lyapunovExponent)
    /\ expOp = "reset" => lyapunovExponent.null /\ behaviorState = "unknown"

\* the parts of C29 that hold: the reset, and the two outer regimes
C29_ResetClears ==
    expOp = "reset" => lyapunovExponent = NullValue /\ behaviorState = "unknown"

C29_OuterRegimesMatch ==
    expOp = "estimate" /\ behaviorState \in {"stable", "chaotic"}
        => behaviorState = RegimeOf(lyapunovExponent)

\* the exponent is null exactly when the state is unknown
C29_NullIffUnknown ==
    lyapunovExponent.null <=> behaviorState = "unknown"

(***************************************************************************)
(* Claims about the regime-change flag on live data (SpecMetrics).          *)
(***************************************************************************)

\* C30: for any live buffer produced by useSharedXYZData (at most bufferSize
\* = 1000 samples), the Lyapunov history MetricsCards builds from it (one
\* estimate per 100-sample window, windows advancing by 50) has at most 19
\* entries, so detectRegimeChange returns false for it: a regime change is
\* never reported on live data.
C30_NoRegimeChangeOnLiveData ==
    mPc = "done" /\ Len(mData) <= LiveBufferSize =>
        /\ Len(lyapunovHistory) <= 19
        /\ ~mRegimeChange

\* a full buffer whose dynamics change three quarters of the way: 19
\* estimates, the last ones 0.4 below the first
C30_Witness ==
    /\ mPc = "done"
    /\ Len(mData) = LiveBufferSize
    /\ Len(lyapunovHistory) = 19
    /\ lyapunovHistory[1] - lyapunovHistory[19] = 40
    /\ ~mRegimeChange
====
